---- MODULE Spec2Model ----
(***************************************************************************)
(* Keyoku demo: the Gradio handlers of app.py, the StatefulChatbot client  *)
(* of stateful_chatbot.py and the remote services they call, as a state    *)
(* machine.  The remote Keyoku service and the language model are the      *)
(* environment: every remote call ends "ok", with a KeyokuError, or with   *)
(* another exception (TimeoutError).                                       *)
(***************************************************************************)
EXTENDS Integers, Sequences, FiniteSets, TLC

\* ------------------------------------------------------------------------
\* Bounds of the model
\* ------------------------------------------------------------------------
\* longest history given to the history conversions
MaxLen == 4
\* session identifiers (uuid draws) handed out in one run
MaxSessions == 2
\* successful state extractions in one run (each creates a state object or
\* raises the version of one)
MaxExtracts == 2
\* calls of the service or the language model that fail in one run of the application
MaxFaults == 1
\* failures in a row of one display fetch that are followed
MaxStreak == 2
\* conversations the memory service stores in one run
MaxMemories == 2
\* agent switches on the stateful tab within one session of the tab
MaxSwitches == 1
\* characters in an API key of the environment
MaxKeyLen == 2
\* characters in an entity identifier of the knowledge graph
MaxIdLen == 9
\* entities, and relationships, the knowledge graph holds
MaxGraph == 2
\* StatefulChatbot constructors running at the same time
MaxRaces == 2

\* ------------------------------------------------------------------------
\* History records (app.py: Gradio "messages" records and legacy tuples)
\* ------------------------------------------------------------------------
Roles == {"user", "assistant"}
Contents == {"a", "b"}

Dict(role, content) == [type |-> "dict", role |-> role, content |-> content]
Tuple(u, a) == [type |-> "tuple", t |-> <<u, a>>]

DictRecords == {Dict(r, c) : r \in Roles, c \in Contents}
TupleRecords == {Tuple(u, a) : u \in Contents, a \in Contents}

SeqsUpTo(S, n) == UNION {[1..k -> S] : k \in 0..n}

\* The role-tagged histories the handlers build: stateful_chat and chat append
\* a user record followed by an assistant record, switch_agent appends one
\* assistant record; a last user record may still wait for its reply.
IsHandlerBuilt(h) ==
    \A i \in 1..Len(h) : (h[i].role = "user" /\ i < Len(h)) => h[i + 1].role = "assistant"
RoleTaggedHistories == {h \in SeqsUpTo(DictRecords, MaxLen) : IsHandlerBuilt(h)}
TupleHistories == SeqsUpTo(TupleRecords, MaxLen)

\* history[i].get("content", "") if isinstance(history[i], dict) else history[i][0]
ChatUserMsg(rec) == IF rec.type = "dict" THEN rec.content ELSE rec.t[1]
\* history[i + 1].get("content", "") if isinstance(..., dict) else history[i + 1][1]
ChatAsstMsg(rec) == IF rec.type = "dict" THEN rec.content ELSE rec.t[2]

\* The while loop of chat(): i is the 1-based index of the record looked at.
RECURSIVE chat_history_tuples_from(_, _)
chat_history_tuples_from(history, i) ==
    IF i > Len(history) THEN <<>>
    ELSE IF i + 1 <= Len(history)
         THEN <<  <<ChatUserMsg(history[i]), ChatAsstMsg(history[i + 1])>>  >>
              \o chat_history_tuples_from(history, i + 2)
         ELSE <<>>

\* a faulty variant: a trailing unpaired record is paired with empty text
RECURSIVE chat_history_tuples_pad(_, _)
chat_history_tuples_pad(history, i) ==
    IF i > Len(history) THEN <<>>
    ELSE IF i + 1 <= Len(history)
         THEN <<  <<ChatUserMsg(history[i]), ChatAsstMsg(history[i + 1])>>  >>
              \o chat_history_tuples_pad(history, i + 2)
         ELSE <<  <<ChatUserMsg(history[i]), "">>  >>
chat_history_tuples_padded(history) == chat_history_tuples_pad(history, 1)

\* chat(): history_tuples as handed to bot.chat
chat_history_tuples(history) == chat_history_tuples_from(history, 1)

\* The while loop of stateful_chat().
RECURSIVE stateful_history_tuples_from(_, _)
stateful_history_tuples_from(history, i) ==
    IF i > Len(history) THEN <<>>
    ELSE IF history[i].type = "dict"
         THEN IF history[i].role = "user" /\ i + 1 <= Len(history)
              THEN << <<history[i].content, history[i + 1].content>> >>
                   \o stateful_history_tuples_from(history, i + 2)
              ELSE stateful_history_tuples_from(history, i + 1)
         ELSE <<history[i].t>> \o stateful_history_tuples_from(history, i + 1)

\* a faulty variant: the user and the assistant text of a pair are swapped
RECURSIVE stateful_history_tuples_swap(_, _)
stateful_history_tuples_swap(history, i) ==
    IF i > Len(history) THEN <<>>
    ELSE IF history[i].type = "dict"
         THEN IF history[i].role = "user" /\ i + 1 <= Len(history)
              THEN << <<history[i + 1].content, history[i].content>> >>
                   \o stateful_history_tuples_swap(history, i + 2)
              ELSE stateful_history_tuples_swap(history, i + 1)
         ELSE <<history[i].t>> \o stateful_history_tuples_swap(history, i + 1)
stateful_history_tuples_swapped(history) == stateful_history_tuples_swap(history, 1)

\* stateful_chat(): history_tuples as handed to bot.chat
stateful_history_tuples(history) == stateful_history_tuples_from(history, 1)

\* ------------------------------------------------------------------------
\* demo_schemas.py: the fixed agent table
\* ------------------------------------------------------------------------
DEMO_AGENTS == {"sales-agent", "support-agent", "scheduler-agent"}
\* an identifier that is no key of DEMO_AGENTS
UnknownAgents == {"billing-agent"}

schema_name(agent_id) ==
    CASE agent_id = "sales-agent" -> "OrderProcessing"
      [] agent_id = "support-agent" -> "SupportTicket"
      [] agent_id = "scheduler-agent" -> "AppointmentScheduling"

\* ------------------------------------------------------------------------
\* The remote SDK calls: how a call can end, and the record of a call made
\* ------------------------------------------------------------------------
\* "ok", a service error (KeyokuError), or another exception (a timeout)
Outcomes == {"ok", "KeyokuError", "TimeoutError"}
Failures == {"KeyokuError", "TimeoutError"}

Call(ep, id, name, out) ==
    [ep |-> ep, id |-> id, name |-> name, mode |-> "", content |-> <<>>, out |-> out]
\* state_schemas.create(name=schema_name, schema_definition=..., transition_rules=...,
\* transition_mode="warn"), all taken from DEMO_AGENTS[agent_id]: content names
\* the agent whose schema definition and transition rules are sent
CreateCall(agent_id, out) ==
    [ep |-> "state_schemas.create", id |-> 0, name |-> schema_name(agent_id), mode |-> "warn",
     content |-> <<agent_id>>, out |-> out]
\* state.extract(content=f"User: {user_message}\nAssistant: {assistant_response}", ...)
ExtractCall(session_id, user_message, assistant_response, out) ==
    [ep |-> "state.extract", id |-> session_id, name |-> "", mode |-> "",
     content |-> <<user_message, assistant_response>>, out |-> out]

\* self.schema_id = None, session_id = None: no identifier
NoId == 0

\* ------------------------------------------------------------------------
\* stateful_chatbot.py: StatefulChatbot
\* ------------------------------------------------------------------------
NoBot == [live |-> FALSE, agent_id |-> "", session_id |-> NoId, schema_id |-> NoId]

\* for schema in response.schemas: if schema.name == schema_name (first match)
FirstSchemaNamed(sch, name) ==
    IF \E i \in 1..Len(sch) : sch[i] = name
    THEN CHOOSE i \in 1..Len(sch) : sch[i] = name /\ \A j \in 1..(i - 1) : sch[j] # name
    ELSE NoId

\* The result of a client operation: the bot, the remote schema list, the
\* remote calls made (in order) and the exception that left the operation.
BotResult(b, sch, calls, exc) == [bot |-> b, schemas |-> sch, calls |-> calls, exc |-> exc]

\* a faulty variant: the listed schemas are not searched, a schema is created
ensure_schema_always_creates(b, sch, oList, oCreate) ==
    IF b.agent_id \notin DEMO_AGENTS
    THEN BotResult(b, sch, <<>>, "none")
    ELSE LET name == schema_name(b.agent_id)
             list == Call("state_schemas.list", NoId, "", oList)
         IN  IF oList = "KeyokuError" THEN BotResult(b, sch, <<list>>, "none")
             ELSE IF oList # "ok" THEN BotResult(b, sch, <<list>>, oList)
             ELSE BotResult([b EXCEPT !.schema_id = Len(sch) + 1], Append(sch, name),
                            <<list, CreateCall(b.agent_id, "ok")>>, "none")

\* StatefulChatbot._ensure_schema
ensure_schema(b, sch, oList, oCreate) ==
    IF b.agent_id \notin DEMO_AGENTS
    THEN BotResult(b, sch, <<>>, "none")
    ELSE LET name == schema_name(b.agent_id)
             list == Call("state_schemas.list", NoId, "", oList)
             found == FirstSchemaNamed(sch, name)
         IN  IF oList = "KeyokuError" THEN BotResult(b, sch, <<list>>, "none")
             ELSE IF oList # "ok" THEN BotResult(b, sch, <<list>>, oList)
             ELSE IF found # NoId
                  THEN BotResult([b EXCEPT !.schema_id = found], sch, <<list>>, "none")
             ELSE IF oCreate = "KeyokuError"
                  THEN BotResult(b, sch, <<list, CreateCall(b.agent_id, oCreate)>>, "none")
             ELSE IF oCreate # "ok"
                  THEN BotResult(b, sch, <<list, CreateCall(b.agent_id, oCreate)>>, oCreate)
             ELSE BotResult([b EXCEPT !.schema_id = Len(sch) + 1], Append(sch, name),
                            <<list, CreateCall(b.agent_id, oCreate)>>, "none")

\* StatefulChatbot.__init__
StatefulChatbot(session_id, agent_id, sch, oList, oCreate) ==
    ensure_schema([live |-> TRUE, agent_id |-> agent_id, session_id |-> session_id,
                   schema_id |-> NoId], sch, oList, oCreate)

\* a faulty variant: the membership test is missing, the agent is set first
switch_agent_unchecked(b, new_agent_id, sch, oList, oCreate) ==
    ensure_schema([b EXCEPT !.agent_id = new_agent_id], sch, oList, oCreate)

\* StatefulChatbot.switch_agent
switch_agent(b, new_agent_id, sch, oList, oCreate) ==
    IF new_agent_id \notin DEMO_AGENTS
    THEN BotResult(b, sch, <<>>, "ValueError")
    ELSE ensure_schema([b EXCEPT !.agent_id = new_agent_id], sch, oList, oCreate)

\* ------------------------------------------------------------------------
\* The remote state objects (keyoku.state.*): the service's side
\* ------------------------------------------------------------------------
StateObject(session_id, agent_id, schema_id) ==
    [session_id |-> session_id, agent_id |-> agent_id, schema_id |-> schema_id,
     version |-> 1, status |-> "active"]

\* the ascending sequence of the members of a finite set of numbers
RECURSIVE Ascending(_)
Ascending(S) ==
    IF S = {} THEN <<>>
    ELSE LET m == CHOOSE x \in S : \A y \in S : x <= y
         IN  <<m>> \o Ascending(S \ {m})

\* state.get_by_session(session_id).states, as identifiers
SessionStateIds(st, session_id) ==
    Ascending({i \in 1..Len(st) : st[i].session_id = session_id})

\* state.list(schema_id, session_id, agent_id, status="active", limit=1)
ActiveStateId(st, schema_id, session_id, agent_id) ==
    LET S == {i \in 1..Len(st) : /\ st[i].schema_id = schema_id
                                 /\ st[i].session_id = session_id
                                 /\ st[i].agent_id = agent_id
                                 /\ st[i].status = "active"}
    IN  IF S = {} THEN NoId ELSE CHOOSE x \in S : \A y \in S : x <= y

\* state.extract, the service's side: the active state object of the
\* (schema, session, agent) gets a new version, or a first one is created
RemoteExtract(st, schema_id, session_id, agent_id) ==
    LET id == ActiveStateId(st, schema_id, session_id, agent_id)
    IN  IF id = NoId THEN Append(st, StateObject(session_id, agent_id, schema_id))
        ELSE [st EXCEPT ![id].version = @ + 1]
\* the extractions the service has accepted so far
RECURSIVE ExtractsDone(_)
ExtractsDone(st) ==
    IF st = <<>> THEN 0 ELSE st[Len(st)].version + ExtractsDone(SubSeq(st, 1, Len(st) - 1))

\* The result of a client operation on the state objects.
StateResult(b, st, calls, exc, ret) ==
    [bot |-> b, states |-> st, calls |-> calls, exc |-> exc, ret |-> ret]

\* StatefulChatbot.extract_state: ret is "None", "state" (a dict with a
\* "state" entry) or "error" (a dict with an "error" entry)
extract_state(b, user_message, assistant_response, st, oExtract) ==
    IF b.schema_id = NoId THEN StateResult(b, st, <<>>, "none", "None")
    ELSE LET call == ExtractCall(b.session_id, user_message, assistant_response, oExtract)
         IN  IF oExtract = "ok"
             THEN StateResult(b, RemoteExtract(st, b.schema_id, b.session_id, b.agent_id),
                              <<call>>, "none", "state")
             ELSE IF oExtract = "KeyokuError"
             THEN StateResult(b, st, <<call>>, "none", "error")
             ELSE StateResult(b, st, <<call>>, oExtract, "")

\* a faulty variant: an archive call that failed is issued once more
reset_session_retrying(b, st, fresh, oGet, failAt, failKind) ==
    LET ids == SessionStateIds(st, b.session_id)
        get == Call("state.get_by_session", b.session_id, "", oGet)
        failed == failAt \in 1..Len(ids)
        attempted == IF failed THEN failAt ELSE Len(ids)
        archived == {ids[k] : k \in 1..(IF failed THEN failAt - 1 ELSE Len(ids))}
        archives == [k \in 1..attempted |->
                        Call("state.archive", ids[k], "", IF k = failAt THEN failKind ELSE "ok")]
        again == IF failed THEN <<Call("state.archive", ids[failAt], "", failKind)>> ELSE <<>>
        st2 == [i \in 1..Len(st) |->
                   IF i \in archived THEN [st[i] EXCEPT !.status = "archived"] ELSE st[i]]
    IN  IF oGet = "KeyokuError" THEN StateResult(b, st, <<get>>, "none", "Error resetting session")
        ELSE IF oGet # "ok" THEN StateResult(b, st, <<get>>, oGet, "")
        ELSE IF failed /\ failKind = "KeyokuError"
             THEN StateResult(b, st2, <<get>> \o archives \o again, "none",
                              "Error resetting session")
        ELSE IF failed THEN StateResult(b, st2, <<get>> \o archives \o again, failKind, "")
        ELSE StateResult([b EXCEPT !.session_id = fresh], st2, <<get>> \o archives,
                         "none", "New session started")

\* StatefulChatbot.reset_session: fresh is the uuid drawn for the new
\* session; the failAt-th archive call (0: none) ends with failKind
reset_session(b, st, fresh, oGet, failAt, failKind) ==
    LET ids == SessionStateIds(st, b.session_id)
        get == Call("state.get_by_session", b.session_id, "", oGet)
        failed == failAt \in 1..Len(ids)
        attempted == IF failed THEN failAt ELSE Len(ids)
        archived == {ids[k] : k \in 1..(IF failed THEN failAt - 1 ELSE Len(ids))}
        archives == [k \in 1..attempted |->
                        Call("state.archive", ids[k], "", IF k = failAt THEN failKind ELSE "ok")]
        st2 == [i \in 1..Len(st) |->
                   IF i \in archived THEN [st[i] EXCEPT !.status = "archived"] ELSE st[i]]
    IN  IF oGet = "KeyokuError" THEN StateResult(b, st, <<get>>, "none", "Error resetting session")
        ELSE IF oGet # "ok" THEN StateResult(b, st, <<get>>, oGet, "")
        ELSE IF failed /\ failKind = "KeyokuError"
             THEN StateResult(b, st2, <<get>> \o archives, "none", "Error resetting session")
        ELSE IF failed THEN StateResult(b, st2, <<get>> \o archives, failKind, "")
        ELSE StateResult([b EXCEPT !.session_id = fresh], st2, <<get>> \o archives,
                         "none", "New session started")

\* ------------------------------------------------------------------------
\* app.py: the module globals and get_stateful_chatbot
\* ------------------------------------------------------------------------
\* The process-wide state a handler works on: _stateful_chatbot_instance,
\* _current_session_id, the uuid source and the remote schema list.
World(instance, session_id, next, sch) ==
    [inst |-> instance, curSid |-> session_id, next |-> next, schemas |-> sch]

Called(w, calls, exc) == [w |-> w, calls |-> calls, exc |-> exc]

\* get_stateful_chatbot builds a new StatefulChatbot
NeedsNewInstance(w, agent_id) == ~w.inst.live \/ w.inst.agent_id # agent_id

\* get_stateful_chatbot(agent_id); o = <<outcome of list, outcome of create>>
get_stateful_chatbot(w, agent_id, o) ==
    LET sid == IF w.curSid = NoId THEN w.next ELSE w.curSid
        next == IF w.curSid = NoId THEN w.next + 1 ELSE w.next
        r == StatefulChatbot(sid, agent_id, w.schemas, o[1], o[2])
    IN  IF ~NeedsNewInstance(w, agent_id)
        THEN Called(World(w.inst, sid, next, w.schemas), <<>>, "none")
        ELSE Called(World(IF r.exc = "none" THEN r.bot ELSE w.inst, sid, next, r.schemas),
                    r.calls, r.exc)

\* the outcomes get_stateful_chatbot(agent_id) can meet in world w
InstanceOutcomes(w, agent_id) ==
    IF ~NeedsNewInstance(w, agent_id) THEN {<<"ok", "ok">>}
    ELSE {o \in Outcomes \X Outcomes :
             (o[1] # "ok" \/ FirstSchemaNamed(w.schemas, schema_name(agent_id)) # NoId)
                => o[2] = "ok"}

\* ------------------------------------------------------------------------
\* app.py: the display cache and the four display fetch operations
\* ------------------------------------------------------------------------
Panels == {"current_state", "state_history", "all_states", "schema_info"}

\* the texts a panel or a cache slot holds
None == [k |-> "None"]
Error == [k |-> "Error"]
Text(t) == [k |-> "text", text |-> t]
\* json.dumps(complete_state): the schema's fields merged with version v's data
CurrentStateJson(agent_id, v) == [k |-> "current_state", agent |-> agent_id, version |-> v]
\* json.dumps(current_data) of an extraction result
ExtractedJson(v) == [k |-> "extracted", version |-> v]
\* the transition table of a state object at version v
HistoryTable(v) == [k |-> "state_history", version |-> v]
\* json.dumps(result_dict): agent -> (version, status, data)
AllStatesJson(S) == [k |-> "all_states", states |-> S]
SchemaInfoJson(agent_id) == [k |-> "schema_info", agent |-> agent_id]

get_empty_state_cache ==
    [current_state |-> None, state_history |-> None, all_states |-> None, schema_info |-> None]

\* The result of a display fetch: the world, the cache, the returned text,
\* the remote calls the fetch made, and where the text came from ("fresh",
\* "cached" or "error").
Fetched(w, cache, ret, calls, served) ==
    [w |-> w, cache |-> cache, ret |-> ret, calls |-> calls, served |-> served]

\* a faulty variant: the fresh value is written to every slot
Fresh_every_slot(w, cache, slot, result, calls) ==
    Fetched(w, [q \in DOMAIN cache |-> result], result, calls, "fresh")

Fresh(w, cache, slot, result, calls) ==
    Fetched(w, [cache EXCEPT ![slot] = result], result, calls, "fresh")

\* except Exception: if cache.get(slot): return cache[slot]; return f"Error: {e}"
Fallback(w, cache, slot, calls) ==
    IF cache[slot] # None THEN Fetched(w, cache, cache[slot], calls, "cached")
    ELSE Fetched(w, cache, Error, calls, "error")

AnyFailed(calls) == \E k \in 1..Len(calls) : calls[k].out # "ok"
\* how many of the calls did not end "ok"
Failed(calls) == Cardinality({k \in 1..Len(calls) : calls[k].out # "ok"})

\* StatefulChatbot.get_current_state: the state object's id, NoId for None
get_current_state(b, st, oList) ==
    LET call == Call("state.list", b.session_id, b.agent_id, oList)
    IN  IF b.schema_id = NoId THEN [state |-> NoId, calls |-> <<>>, exc |-> "none"]
        ELSE IF oList = "ok"
        THEN [state |-> ActiveStateId(st, b.schema_id, b.session_id, b.agent_id),
              calls |-> <<call>>, exc |-> "none"]
        ELSE IF oList = "KeyokuError" THEN [state |-> NoId, calls |-> <<call>>, exc |-> "none"]
        ELSE [state |-> NoId, calls |-> <<call>>, exc |-> oList]

\* get_current_state_display(agent_id, cache)
get_current_state_display(w, st, agent_id, cache, oInst, oList) ==
    LET g == get_stateful_chatbot(w, agent_id, oInst)
        cs == get_current_state(g.w.inst, st, oList)
    IN  IF g.exc # "none" THEN Fallback(g.w, cache, "current_state", g.calls)
        ELSE IF cs.exc # "none" THEN Fallback(g.w, cache, "current_state", g.calls \o cs.calls)
        ELSE Fresh(g.w, cache, "current_state",
                   CurrentStateJson(agent_id, IF cs.state = NoId THEN 0 ELSE st[cs.state].version),
                   g.calls \o cs.calls)

\* get_state_history_display(agent_id, cache); StatefulChatbot.get_state_history inlined
get_state_history_display(w, st, agent_id, cache, oInst, oList, oHistory) ==
    LET g == get_stateful_chatbot(w, agent_id, oInst)
        cs == get_current_state(g.w.inst, st, oList)
        hist == Call("state.history", cs.state, "", oHistory)
    IN  IF g.exc # "none" THEN Fallback(g.w, cache, "state_history", g.calls)
        ELSE IF g.w.inst.schema_id = NoId
        THEN Fresh(g.w, cache, "state_history", Text("No schema initialized yet"), g.calls)
        ELSE IF cs.exc # "none" THEN Fallback(g.w, cache, "state_history", g.calls \o cs.calls)
        ELSE IF cs.state = NoId
        THEN Fresh(g.w, cache, "state_history", Text("No state transitions yet"),
                   g.calls \o cs.calls)
        ELSE IF oHistory # "ok"
        THEN Fallback(g.w, cache, "state_history", g.calls \o cs.calls \o <<hist>>)
        ELSE Fresh(g.w, cache, "state_history", HistoryTable(st[cs.state].version),
                   g.calls \o cs.calls \o <<hist>>)

\* result_dict of get_all_session_states_display: a later state of an agent
\* replaces an earlier one
SessionStatesByAgent(st, session_id) ==
    {<<st[i].agent_id, st[i].version, st[i].status>> :
        i \in {j \in 1..Len(st) :
                 /\ st[j].session_id = session_id
                 /\ \A l \in (j + 1)..Len(st) :
                       ~(st[l].session_id = session_id /\ st[l].agent_id = st[j].agent_id)}}

\* get_all_session_states_display(agent_id, cache)
get_all_session_states_display(w, st, agent_id, cache, oInst, oGet) ==
    LET g == get_stateful_chatbot(w, agent_id, oInst)
        S == SessionStatesByAgent(st, g.w.inst.session_id)
        get == Call("state.get_by_session", g.w.inst.session_id, "", oGet)
    IN  IF g.exc # "none" THEN Fallback(g.w, cache, "all_states", g.calls)
        ELSE IF g.w.inst.schema_id = NoId
        THEN Fresh(g.w, cache, "all_states",
                   Text("Schema not initialized - start chatting to initialize"), g.calls)
        ELSE IF oGet # "ok" THEN Fallback(g.w, cache, "all_states", g.calls \o <<get>>)
        ELSE IF S = {}
        THEN Fresh(g.w, cache, "all_states", Text("No states in session yet"),
                   g.calls \o <<get>>)
        ELSE Fresh(g.w, cache, "all_states", AllStatesJson(S), g.calls \o <<get>>)

\* get_schema_info_display(agent_id, cache): built from DEMO_AGENTS alone
get_schema_info_display(w, agent_id, cache) ==
    Fresh(w, cache, "schema_info", SchemaInfoJson(agent_id), <<>>)

\* update_state_panels(agent_id, cache): every result the four fetches can
\* have, one for each way the remote calls can end
PanelsResult(f1, f2, f3, f4) ==
    [w |-> f4.w, cache |-> f4.cache,
     panels |-> [current_state |-> f1.ret, state_history |-> f2.ret,
                 all_states |-> f3.ret, schema_info |-> f4.ret],
     log |-> [current_state |-> [failed |-> AnyFailed(f1.calls), served |-> f1.served],
              state_history |-> [failed |-> AnyFailed(f2.calls), served |-> f2.served],
              all_states |-> [failed |-> AnyFailed(f3.calls), served |-> f3.served],
              schema_info |-> [failed |-> AnyFailed(f4.calls), served |-> f4.served]],
     calls |-> f1.calls \o f2.calls \o f3.calls \o f4.calls]

update_state_panels(w, st, agent_id, cache) ==
    UNION { UNION { { PanelsResult(f1, f2, f3, get_schema_info_display(f3.w, agent_id, f3.cache)) :
                      f3 \in {get_all_session_states_display(f2.w, st, agent_id, f2.cache, oInst, oGet) :
                                 oInst \in InstanceOutcomes(f2.w, agent_id), oGet \in Outcomes} } :
                    f2 \in {get_state_history_display(f1.w, st, agent_id, f1.cache, oInst, oList, oHistory) :
                               oInst \in InstanceOutcomes(f1.w, agent_id),
                               oList \in Outcomes, oHistory \in Outcomes} } :
            f1 \in {get_current_state_display(w, st, agent_id, cache, oInst, oList) :
                       oInst \in InstanceOutcomes(w, agent_id), oList \in Outcomes} }

\* a faulty variant: the cache handed in is kept
force_refresh_keeps_cache(w, st, agent_id, cache) ==
    update_state_panels(w, st, agent_id, cache)

\* force_refresh_state_panels(agent_id, cache)
force_refresh_state_panels(w, st, agent_id, cache) ==
    update_state_panels(w, st, agent_id, get_empty_state_cache)

\* ------------------------------------------------------------------------
\* app.py: the chat handlers of the stateful tab
\* ------------------------------------------------------------------------
Msgs == {"m1", "m2"}
\* a message with nothing but white space: not message.strip()
Blank == " "
Replies == {"r1"}
GenerationError == "Error generating response"
SchemaError == "Error: Could not create/find state schema. Check API connection."
SwitchMsg(agent_id) == "Switched to " \o agent_id

\* what the language model call can give: a reply, or an exception that
\* StatefulChatbot.chat turns into an error text
LlmResults == Replies \cup {GenerationError}

\* the call of the language model in StatefulChatbot.chat
LlmCall(llm) == Call("llm.invoke", NoId, "", IF llm = GenerationError THEN "TimeoutError" ELSE "ok")

\* What a listener did: the world and the service's states after it, whether
\* it raised, its outputs, and the remote calls it made.
Handled(w, st, raised, out, calls) ==
    [w |-> w, states |-> st, raised |-> raised, out |-> out, calls |-> calls]

NoSchemaError == "Error: No state schema configured for this agent."

\* a faulty variant: the reply is generated and the turn extracted at once
StatefulChatbot_chat_extracting(b, st, message, oList, llm) ==
    LET cs == get_current_state(b, st, oList)
    IN  IF b.schema_id = NoId THEN [calls |-> <<>>, ret |-> NoSchemaError]
        ELSE [calls |-> cs.calls \o <<LlmCall(llm), ExtractCall(b.session_id, message, llm, "ok")>>,
              ret |-> llm]

\* StatefulChatbot.chat: _get_state_context reads the current state (every
\* exception of that read is caught), then the language model is called
StatefulChatbot_chat(b, st, message, oList, llm) ==
    LET cs == get_current_state(b, st, oList)
    IN  IF b.schema_id = NoId THEN [calls |-> <<>>, ret |-> NoSchemaError]
        ELSE [calls |-> cs.calls \o <<LlmCall(llm)>>, ret |-> llm]

\* response_text.startswith("Error"), for the texts of the model
StartsWithError(text) == text \in {GenerationError, NoSchemaError}

\* StatefulChatbot.chat_with_state_extraction: chat, then extract_state
\* unless the reply starts with "Error"
chat_with_state_extraction(b, st, message, oList, llm, oExtract) ==
    LET c == StatefulChatbot_chat(b, st, message, oList, llm)
        r == extract_state(b, message, c.ret, st, oExtract)
    IN  IF StartsWithError(c.ret) THEN StateResult(b, st, c.calls, "none", c.ret)
        ELSE StateResult(b, r.states, c.calls \o r.calls, r.exc, c.ret)

\* a faulty variant: the chatbot is asked for a reply without a look at its
\* schema, and the message goes on to the extraction
stateful_chat_unchecked(w, st, message, history, agent_id, oInst, oList, llm) ==
    LET g == get_stateful_chatbot(w, agent_id, oInst)
        c == StatefulChatbot_chat(g.w.inst, st, message, oList, llm)
        turn(reply) == history \o <<Dict("user", message), Dict("assistant", reply)>>
    IN  IF message \in {"", Blank} THEN Handled(w, st, FALSE, <<history, "", message>>, <<>>)
        ELSE IF g.exc # "none" THEN Handled(g.w, st, TRUE, <<>>, g.calls)
        ELSE Handled(g.w, st, FALSE, <<turn(c.ret), "", message>>, g.calls \o c.calls)

\* stateful_chat(message, history, agent_id): out = the three outputs
\* (stateful_chatbot_ui, stateful_msg_input, last_user_message)
stateful_chat(w, st, message, history, agent_id, oInst, oList, llm) ==
    LET g == get_stateful_chatbot(w, agent_id, oInst)
        c == StatefulChatbot_chat(g.w.inst, st, message, oList, llm)
        turn(reply) == history \o <<Dict("user", message), Dict("assistant", reply)>>
    IN  IF message \in {"", Blank} THEN Handled(w, st, FALSE, <<history, "", message>>, <<>>)
        ELSE IF g.exc # "none" THEN Handled(g.w, st, TRUE, <<>>, g.calls)
        ELSE IF g.w.inst.schema_id = NoId
        THEN Handled(g.w, st, FALSE, <<turn(SchemaError), "", "">>, g.calls)
        ELSE Handled(g.w, st, FALSE, <<turn(c.ret), "", message>>, g.calls \o c.calls)

\* a faulty variant: a cache emptied when the extraction gives no state
extract_state_background_clears(w, st, user_message, history, agent_id, cache, oInst, oExtract) ==
    LET g == get_stateful_chatbot(w, agent_id, oInst)
        r == extract_state(g.w.inst, user_message, "r1", st, oExtract)
    IN  Handled(g.w, r.states, FALSE,
                <<IF r.ret = "state" THEN cache ELSE get_empty_state_cache, r.calls>>,
                g.calls \o r.calls)

\* extract_state_background(user_message, history, agent_id, cache):
\* out = <<cache, the state.extract calls made>>
extract_state_background(w, st, user_message, history, agent_id, cache, oInst, oExtract) ==
    LET g == get_stateful_chatbot(w, agent_id, oInst)
        assistant_response ==
            IF Len(history) >= 2 /\ history[Len(history)].role = "assistant"
            THEN history[Len(history)].content ELSE ""
        r == extract_state(g.w.inst, user_message, assistant_response, st, oExtract)
        id == ActiveStateId(r.states, g.w.inst.schema_id, g.w.inst.session_id, g.w.inst.agent_id)
    IN  IF user_message \in {"", Blank} THEN Handled(w, st, FALSE, <<cache, <<>> >>, <<>>)
        ELSE IF g.exc # "none" THEN Handled(g.w, st, TRUE, <<cache, <<>> >>, g.calls)
        ELSE IF g.w.inst.schema_id = NoId THEN Handled(g.w, st, FALSE, <<cache, <<>> >>, g.calls)
        ELSE IF assistant_response = "" THEN Handled(g.w, st, FALSE, <<cache, <<>> >>, g.calls)
        ELSE IF r.exc = "none" /\ r.ret = "state"
        THEN Handled(g.w, r.states, FALSE,
                     << [cache EXCEPT !.current_state = ExtractedJson(r.states[id].version)],
                        r.calls >>, g.calls \o r.calls)
        ELSE Handled(g.w, r.states, FALSE, <<cache, r.calls>>, g.calls \o r.calls)

\* a faulty variant: the history is replaced by the switch record
ui_switch_agent_clears(w, st, agent_id, history) ==
    Handled([w EXCEPT !.inst = NoBot], st, FALSE,
            << <<Dict("assistant", SwitchMsg(agent_id))>> >>, <<>>)

\* a faulty variant: the switch draws a new session identifier as well
ui_switch_agent_new_session(w, st, agent_id, history) ==
    Handled(World(NoBot, w.next, w.next + 1, w.schemas), st, FALSE,
            <<history \o <<Dict("assistant", SwitchMsg(agent_id))>> >>, <<>>)

\* switch_agent(agent_id, history): out = <<history>>
ui_switch_agent(w, st, agent_id, history) ==
    Handled([w EXCEPT !.inst = NoBot], st, FALSE,
            <<history \o <<Dict("assistant", SwitchMsg(agent_id))>> >>, <<>>)

\* a faulty variant: the chatbot of the old session is kept
new_stateful_session_keeps_instance(w, st) ==
    Handled(World(w.inst, w.next, w.next + 1, w.schemas), st, FALSE, << <<>> >>, <<>>)

\* new_stateful_session(): out = <<stateful_chatbot_ui>>
new_stateful_session(w, st) ==
    Handled(World(NoBot, w.next, w.next + 1, w.schemas), st, FALSE, << <<>> >>, <<>>)

\* ------------------------------------------------------------------------
\* stateful_chatbot.py: the read-only projections, as the caller sees them
\* ------------------------------------------------------------------------
\* what a projection returned: "None", "state" (a state object), "dict",
\* "empty_list", "list", "error" ({"error": ...}), "error_list" ([{"error": ...}])
Projection(calls, exc, ret) == [calls |-> calls, exc |-> exc, ret |-> ret]

\* StatefulChatbot.get_current_state, its return value
current_state(b, st, oList) ==
    LET cs == get_current_state(b, st, oList)
    IN  Projection(cs.calls, cs.exc,
                   IF cs.exc # "none" THEN "" ELSE IF cs.state = NoId THEN "None" ELSE "state")

\* StatefulChatbot.get_all_session_states
get_all_session_states(b, st, oGet) ==
    LET call == Call("state.get_by_session", b.session_id, "", oGet)
    IN  IF oGet = "ok"
        THEN Projection(<<call>>, "none",
                        IF SessionStateIds(st, b.session_id) = <<>> THEN "empty_list" ELSE "list")
        ELSE IF oGet = "KeyokuError" THEN Projection(<<call>>, "none", "error_list")
        ELSE Projection(<<call>>, oGet, "")

\* StatefulChatbot.get_state_history: get_current_state, then state.history
get_state_history(b, st, oList, oHistory) ==
    LET cs == get_current_state(b, st, oList)
        hist == Call("state.history", cs.state, "", oHistory)
    IN  IF cs.exc # "none" THEN Projection(cs.calls, cs.exc, "")
        ELSE IF cs.state = NoId THEN Projection(cs.calls, "none", "empty_list")
        ELSE IF oHistory = "ok" THEN Projection(cs.calls \o <<hist>>, "none", "list")
        ELSE IF oHistory = "KeyokuError"
             THEN Projection(cs.calls \o <<hist>>, "none", "error_list")
        ELSE Projection(cs.calls \o <<hist>>, oHistory, "")

\* StatefulChatbot.get_schema_info
get_schema_info(b, oGet) ==
    LET call == Call("state_schemas.get", b.schema_id, "", oGet)
    IN  IF b.schema_id = NoId THEN Projection(<<>>, "none", "None")
        ELSE IF oGet = "ok" THEN Projection(<<call>>, "none", "dict")
        ELSE IF oGet = "KeyokuError" THEN Projection(<<call>>, "none", "error")
        ELSE Projection(<<call>>, oGet, "")

\* ------------------------------------------------------------------------
\* chatbot.py: KeyokuChatbot
\* ------------------------------------------------------------------------
\* The result of an operation of the memory chatbot: the conversations the
\* service holds, the remote calls made (in order), the exception that left
\* the operation and the value it returned.
MemResult(mem, calls, exc, ret) == [memories |-> mem, calls |-> calls, exc |-> exc, ret |-> ret]

\* keyoku.remember(f"User: {message}\nAssistant: {response_text}", session_id=...)
RememberCall(session_id, message, response_text, out) ==
    [ep |-> "remember", id |-> session_id, name |-> "", mode |-> "",
     content |-> <<message, response_text>>, out |-> out]

\* KeyokuChatbot._retrieve_relevant_memories: the context text, "" when the
\* exception of keyoku.search leaves the method
retrieve_relevant_memories(mem, query, oSearch) ==
    LET call == Call("search", NoId, query, oSearch)
    IN  IF oSearch = "ok"
        THEN MemResult(mem, <<call>>, "none",
                       IF mem = <<>> THEN "NO_MEMORY_CONTEXT" ELSE "MEMORY_CONTEXT")
        ELSE IF oSearch = "KeyokuError"
        THEN MemResult(mem, <<call>>, "none", "Could not retrieve memories")
        ELSE MemResult(mem, <<call>>, oSearch, "")

\* a faulty variant: only the service error of remember/wait is caught
chat_timeout_escapes(session_id, mem, message, oSearch, llm, oRemember, oWait) ==
    LET c == retrieve_relevant_memories(mem, message, oSearch)
        gen == c.calls \o <<LlmCall(llm)>>
        remember == RememberCall(session_id, message, llm, oRemember)
        wait == Call("job.wait", NoId, "", oWait)
        stored == Append(mem, <<message, llm>>)
    IN  IF c.exc # "none" THEN c
        ELSE IF llm = GenerationError THEN MemResult(mem, gen, "none", GenerationError)
        ELSE IF oRemember = "TimeoutError" THEN MemResult(mem, gen \o <<remember>>, oRemember, "")
        ELSE IF oRemember # "ok" THEN MemResult(mem, gen \o <<remember>>, "none", llm)
        ELSE IF oWait = "TimeoutError"
             THEN MemResult(stored, gen \o <<remember, wait>>, oWait, "")
        ELSE MemResult(stored, gen \o <<remember, wait>>, "none", llm)

\* a faulty variant: the error text of a failed generation is stored like a reply
chat_stores_failed_turn(session_id, mem, message, oSearch, llm, oRemember, oWait) ==
    LET c == retrieve_relevant_memories(mem, message, oSearch)
        gen == c.calls \o <<LlmCall(llm)>>
        remember == RememberCall(session_id, message, llm, oRemember)
        wait == Call("job.wait", NoId, "", oWait)
    IN  IF c.exc # "none" THEN c
        ELSE IF oRemember # "ok" THEN MemResult(mem, gen \o <<remember>>, "none", llm)
        ELSE MemResult(Append(mem, <<message, llm>>), gen \o <<remember, wait>>, "none", llm)

\* KeyokuChatbot.chat: llm is the reply of the language model or
\* GenerationError; a remember the service accepted stores the conversation,
\* whatever job.wait does afterwards
chat(session_id, mem, message, oSearch, llm, oRemember, oWait) ==
    LET c == retrieve_relevant_memories(mem, message, oSearch)
        gen == c.calls \o <<LlmCall(llm)>>
        remember == RememberCall(session_id, message, llm, oRemember)
        wait == Call("job.wait", NoId, "", oWait)
    IN  IF c.exc # "none" THEN c
        ELSE IF llm = GenerationError THEN MemResult(mem, gen, "none", GenerationError)
        ELSE IF oRemember # "ok" THEN MemResult(mem, gen \o <<remember>>, "none", llm)
        ELSE MemResult(Append(mem, <<message, llm>>), gen \o <<remember, wait>>, "none", llm)

\* try: <one call>; return <value>  except KeyokuError: return <error>
Projected(mem, ep, out, value, error) ==
    LET call == Call(ep, NoId, "", out)
    IN  IF out = "ok" THEN MemResult(mem, <<call>>, "none", value)
        ELSE IF out = "KeyokuError" THEN MemResult(mem, <<call>>, "none", error)
        ELSE MemResult(mem, <<call>>, out, "")

\* the values returned: "dict" and "list" stand for the data of a success,
\* "error" for {"error": ...}, "error_list" for [{"error": ...}]
get_stats(mem, out) == Projected(mem, "stats", out, "dict", "error")
get_memories(mem, out) == Projected(mem, "memories.list", out, "list", "error_list")
get_entities(mem, out) == Projected(mem, "entities.list", out, "list", "error_list")
get_cleanup_suggestions(mem, out) == Projected(mem, "cleanup.suggestions", out, "dict", "error")
execute_cleanup(mem, out) == Projected(mem, "cleanup.execute", out, "dict", "error")
export_data(mem, out) == Projected(mem, "data.export", out, "dict", "error")
get_audit_logs(mem, out) == Projected(mem, "audit.list", out, "list", "error_list")

\* KeyokuChatbot.get_relationships: entities.list, then relationships.list
get_relationships(mem, oEntities, oRelationships) ==
    LET entities == Call("entities.list", NoId, "", oEntities)
        rels == Call("relationships.list", NoId, "", oRelationships)
    IN  IF oEntities = "KeyokuError" THEN MemResult(mem, <<entities>>, "none", "error_list")
        ELSE IF oEntities # "ok" THEN MemResult(mem, <<entities>>, oEntities, "")
        ELSE IF oRelationships = "KeyokuError"
             THEN MemResult(mem, <<entities, rels>>, "none", "error_list")
        ELSE IF oRelationships # "ok"
             THEN MemResult(mem, <<entities, rels>>, oRelationships, "")
        ELSE MemResult(mem, <<entities, rels>>, "none", "list")

\* entities.list(limit=100), rel.source_entity_id[:8]
EntityLimit == 100
IdPrefixLen == 8
Min(a, b) == IF a <= b THEN a ELSE b
\* s[:n]
Prefix(str, n) == SubSeq(str, 1, Min(n, Len(str)))
\* the knowledge graph of the service: entities (id, canonical_name) and
\* relationships (source_entity_id, relationship_type, target_entity_id)
Graph(entities, relationships) == [entities |-> entities, relationships |-> relationships]
Entity(id, canonical_name) == [id |-> id, canonical_name |-> canonical_name]
Relationship(source, type, target) ==
    [source_entity_id |-> source, relationship_type |-> type, target_entity_id |-> target]

\* entity_names = {e.id: e.canonical_name for e in entities}: a later entity
\* with the same id replaces an earlier one
HasName(entities, id) == \E i \in 1..Len(entities) : entities[i].id = id
NameOf(entities, id) ==
    entities[CHOOSE i \in 1..Len(entities) :
                /\ entities[i].id = id
                /\ \A j \in (i + 1)..Len(entities) : entities[j].id # id].canonical_name
\* entity_names.get(id, id[:8] + "..."); identifiers and names are sequences
\* of characters
entity_label(entities, id) ==
    IF HasName(entities, id) THEN NameOf(entities, id)
    ELSE Prefix(id, IdPrefixLen) \o <<".", ".", ".">>

\* a faulty variant: the whole identifier is shown for an unknown entity
resolved_relationships_full_id(g) ==
    LET entities == SubSeq(g.entities, 1, Min(EntityLimit, Len(g.entities)))
    IN  [k \in 1..Len(g.relationships) |->
            [source |-> IF HasName(entities, g.relationships[k].source_entity_id)
                        THEN NameOf(entities, g.relationships[k].source_entity_id)
                        ELSE g.relationships[k].source_entity_id \o <<".", ".", ".">>,
             type |-> g.relationships[k].relationship_type,
             target |-> entity_label(entities, g.relationships[k].target_entity_id)]]

\* KeyokuChatbot.get_relationships, the list it returns when both calls succeed
resolved_relationships(g) ==
    LET entities == SubSeq(g.entities, 1, Min(EntityLimit, Len(g.entities)))
    IN  [k \in 1..Len(g.relationships) |->
            [source |-> entity_label(entities, g.relationships[k].source_entity_id),
             type |-> g.relationships[k].relationship_type,
             target |-> entity_label(entities, g.relationships[k].target_entity_id)]]

\* KeyokuChatbot.clear_all_memories: every exception is caught
clear_all_memories(mem, out) ==
    LET call == Call("memories.delete_all", NoId, "", out)
    IN  IF out = "ok" THEN MemResult(<<>>, <<call>>, "none", "success")
        ELSE MemResult(mem, <<call>>, "none", "failure")

\* ------------------------------------------------------------------------
\* app.py, create_app: the event wiring of the stateful tab
\* ------------------------------------------------------------------------
\* stateful_send_btn.click(...).then(...).then(...), stateful_msg_input.submit likewise
SendChain == <<"stateful_chat", "extract_state_background", "update_state_panels">>
\* new_session_btn.click(...).then(...)
NewSessionChain == <<"new_stateful_session", "force_refresh_state_panels">>
\* refresh_state_btn.click(...)
RefreshChain == <<"force_refresh_state_panels">>
\* agent_selector.change(switch_agent, ...).then(update_state_panels, ...)
AgentChain == <<"switch_agent", "update_state_panels">>
\* app.load(update_panels, ...).then(update_state_panels, ...): the stateful part
LoadChain == <<"update_state_panels">>

\* a faulty variant: every listener of a chain is dispatched with the click
then_at_once(nStarted, nFinished) == TRUE

\* .then(): the next listener is dispatched when the one before it has finished
then_ready(nStarted, nFinished) == nStarted = nFinished

VARIABLES
    convHistory,      \* the history argument of chat / stateful_chat
    convChat,         \* history_tuples built by chat
    convStateful,     \* history_tuples built by stateful_chat
    convDone,         \* which of the two conversions have run
    schemas,          \* remote: the names of the state schemas, by identifier
    states,           \* remote: the state objects, by identifier
    nextSession,      \* the next session identifier uuid4 yields
    bot,              \* a StatefulChatbot a caller holds
    op,               \* the last client operation: its name, argument, the bot
                      \* before it, the remote calls it made, how it ended
    inst,             \* app.py: _stateful_chatbot_instance
    curSid,           \* app.py: _current_session_id
    ui,               \* the components of one browser session's stateful tab
    chain,            \* the listeners of the event being handled, in order
    nStarted,         \* how many of them have been dispatched
    nFinished,        \* how many of them have returned
    faults,           \* how many calls of the service or the language model failed
    obs,              \* what the last listeners did (for the claims)
    memories,         \* remote: the conversations the memory service has stored
    graph,            \* remote: the entities and relationships of the knowledge graph
    shown,            \* the list the last successful get_relationships returned
    config,           \* config.py: the Config in use (its two keys)
    validation,       \* what Config.validate returned, once it has been called
    ensuring          \* the _ensure_schema calls of constructors running at the same time

convVars == <<convHistory, convChat, convStateful, convDone>>
remoteVars == <<schemas, states>>
botVars == <<bot, op>>
appVars == <<inst, curSid, ui, chain, nStarted, nFinished, faults, obs>>
memVars == <<memories, graph, shown>>
configVars == <<config, validation, ensuring>>
vars == <<convHistory, convChat, convStateful, convDone, schemas, states, nextSession,
          bot, op, inst, curSid, ui, chain, nStarted, nFinished, faults, obs,
          memories, graph, shown, config, validation, ensuring>>

\* config.py: a Config, its keys as strings of characters
Config(keyoku_api_key, openai_api_key) ==
    [keyoku_api_key |-> keyoku_api_key, openai_api_key |-> openai_api_key]
NotValidated == [called |-> FALSE, errors |-> <<>>]

\* the values KEYOKU_API_KEY and OPENAI_API_KEY can have: strings of up to
\* MaxKeyLen characters; an unset variable reads as the empty string
KeyChars == {"k", "0", " "}
Keys == UNION {[1..n -> KeyChars] : n \in 0..MaxKeyLen}

\* a faulty variant: only the first key is looked at
validate_keyoku_only(c) ==
    IF c.keyoku_api_key = <<>> THEN <<"KEYOKU_API_KEY is required">> ELSE <<>>

\* Config.validate: "not key" is true of the empty string only
validate(c) ==
    LET errors0 == <<>>
        errors1 == IF Len(c.keyoku_api_key) = 0
                   THEN Append(errors0, "KEYOKU_API_KEY is required") ELSE errors0
        errors2 == IF Len(c.openai_api_key) = 0
                   THEN Append(errors1, "OPENAI_API_KEY is required") ELSE errors1
    IN  errors2

Op(name, arg, pre, calls, exc, ret) ==
    [name |-> name, arg |-> arg, pre |-> pre, calls |-> calls, exc |-> exc, ret |-> ret]
NoOp == Op("", "", NoBot, <<>>, "none", "")

\* One _ensure_schema call in flight: where it is, the chatbot it works for,
\* the response of its state_schemas.list, whether one of its calls failed.
Ensuring(pc, b, listed, failed) == [pc |-> pc, bot |-> b, listed |-> listed, failed |-> failed]
NoEnsuring == [i \in 1..MaxRaces |-> Ensuring("new", NoBot, <<>>, FALSE)]

\* What the claims look at: the message stateful_chat was called with and the
\* reply it generated in this chain, the endpoints it called,
\* the texts of the state.extract calls of
\* this chain, the session identifier the listener's chatbot had, what each
\* fetch of the last panel update did, and the identifier this browser session
\* got on its first use or asked for with New Session.
NoLog == [p \in Panels |-> [failed |-> FALSE, served |-> ""]]
\* the failures in a row of one panel's fetch: the panel, what its slot held
\* before the first of them, what each returned and left in the slot
NoStreak == [panel |-> "", held |-> [k |-> "None"], rets |-> <<>>, slots |-> <<>>]
\* the panel whose successful fetch is followed, and the value it returned
NoKept == [panel |-> "", value |-> [k |-> "None"]]
NoObs == [message |-> "", reply |-> "", called |-> {}, submitted |-> <<>>,
          usedSid |-> NoId, ownSid |-> NoId, log |-> NoLog, streak |-> NoStreak,
          kept |-> NoKept]

\* The service holds no schema and no state; no client object exists yet.
InitRemote ==
    /\ schemas = <<>>
    /\ states = <<>>
    /\ memories = <<>>
    /\ graph = Graph(<<>>, <<>>)
    /\ shown = <<>>
\* Both keys are set in the environment; validate has not been called.
InitBot ==
    /\ nextSession = 1
    /\ bot = NoBot
    /\ op = NoOp
    /\ config = Config(<<"k">>, <<"k">>)
    /\ validation = NotValidated
    /\ ensuring = NoEnsuring
\* the module globals are None; the page has not loaded
InitAppIdle ==
    /\ inst = NoBot
    /\ curSid = NoId
    /\ ui = [stateful_chatbot_ui |-> <<>>, stateful_msg_input |-> "",
             last_user_message |-> "", agent_selector |-> "sales-agent",
             state_display_cache |-> get_empty_state_cache,
             panels |-> get_empty_state_cache]
    /\ chain = <<>>
    /\ nStarted = 0
    /\ nFinished = 0
    /\ faults = 0
    /\ obs = NoObs
InitConvIdle ==
    /\ convHistory = <<>>
    /\ convChat = <<>>
    /\ convStateful = <<>>
    /\ convDone = {}

InitConv ==
    /\ convHistory \in RoleTaggedHistories \cup TupleHistories
    /\ convChat = <<>>
    /\ convStateful = <<>>
    /\ convDone = {}
    /\ InitRemote
    /\ InitBot
    /\ InitAppIdle

\* chat(), lines 260-270: the conversion before bot.chat
ConvertChat ==
    /\ "chat" \notin convDone
    /\ convChat' = chat_history_tuples(convHistory)
    /\ convDone' = convDone \cup {"chat"}
    /\ UNCHANGED <<convHistory, convStateful, remoteVars, nextSession, botVars, appVars,
                   memVars, configVars>>

\* stateful_chat(), lines 414-426: the conversion before bot.chat
ConvertStateful ==
    /\ "stateful_chat" \notin convDone
    /\ convStateful' = stateful_history_tuples(convHistory)
    /\ convDone' = convDone \cup {"stateful_chat"}
    /\ UNCHANGED <<convHistory, convChat, remoteVars, nextSession, botVars, appVars,
                   memVars, configVars>>

NextConv == ConvertChat \/ ConvertStateful

SpecConv == InitConv /\ [][NextConv]_vars

\* ------------------------------------------------------------------------
\* Claims about the history conversion
\* ------------------------------------------------------------------------
IsRoleTagged(h) == \A i \in 1..Len(h) : h[i].type = "dict"
IsTupleHistory(h) == \A i \in 1..Len(h) : h[i].type = "tuple"
\* user, assistant, user, assistant, ... (a trailing user record allowed)
Alternates(h) ==
    /\ IsRoleTagged(h)
    /\ \A i \in 1..Len(h) : h[i].role = IF i % 2 = 1 THEN "user" ELSE "assistant"
\* the k-th tuple is (content of record 2k-1, content of record 2k), 1-based
PositionalPairs(h) == [k \in 1..(Len(h) \div 2) |-> <<h[2 * k - 1].content, h[2 * k].content>>]
ConvResultsAre(expected) ==
    /\ "chat" \in convDone => convChat = expected
    /\ "stateful_chat" \in convDone => convStateful = expected

\* C4 (as stated): every role-tagged history of even length 2n converts, in
\* chat and in stateful_chat, to the n positional pairs in order; a trailing
\* unpaired user record of an odd-length history yields no tuple.
C4_AnyRoleTaggedHistory ==
    IsRoleTagged(convHistory) =>
        /\ Len(convHistory) % 2 = 0 => ConvResultsAre(PositionalPairs(convHistory))
        /\ (Len(convHistory) % 2 = 1 /\ convHistory[Len(convHistory)].role = "user") =>
              /\ "chat" \in convDone =>
                    convChat = chat_history_tuples(SubSeq(convHistory, 1, Len(convHistory) - 1))
              /\ "stateful_chat" \in convDone =>
                    convStateful = stateful_history_tuples(SubSeq(convHistory, 1, Len(convHistory) - 1))

\* C4 (amended): every history that alternates user, assistant, ... converts,
\* in chat and in stateful_chat, to its Len \div 2 positional pairs in order;
\* the trailing user record of an odd-length one yields no tuple.
C4_AlternatingHistory ==
    Alternates(convHistory) => ConvResultsAre(PositionalPairs(convHistory))

C4_Witness ==
    /\ convDone = {"chat", "stateful_chat"}
    /\ Alternates(convHistory)
    /\ Len(convHistory) = 3
    /\ convChat = << <<"a", "b">> >>
    /\ convStateful = << <<"a", "b">> >>

\* C5: a history that already is a sequence of (user, assistant) tuples is
\* returned by both conversions unchanged: same tuples, same number, same order.
C5_IdempotentOnTuples ==
    IsTupleHistory(convHistory) =>
        ConvResultsAre([i \in 1..Len(convHistory) |-> convHistory[i].t])

\* ------------------------------------------------------------------------
\* A caller using one StatefulChatbot directly
\* ------------------------------------------------------------------------
\* StatefulChatbot(agent_id=...): session_id defaults to a fresh uuid
BotConstruct(agent_id, oList, oCreate) ==
    /\ ~bot.live
    /\ nextSession <= MaxSessions
    /\ LET r == StatefulChatbot(nextSession, agent_id, schemas, oList, oCreate)
       IN  /\ bot' = IF r.exc = "none" THEN r.bot ELSE bot
           /\ schemas' = r.schemas
           /\ op' = Op("__init__", agent_id, bot, r.calls, r.exc, "")
           \* an identifier no object kept is as good as never drawn
           /\ nextSession' = IF r.exc = "none" THEN nextSession + 1 ELSE nextSession
    /\ UNCHANGED <<states, convVars, appVars, memVars, configVars>>

BotSwitchAgent(new_agent_id, oList, oCreate) ==
    /\ bot.live
    /\ LET r == switch_agent(bot, new_agent_id, schemas, oList, oCreate)
       IN  /\ bot' = r.bot
           /\ schemas' = r.schemas
           /\ op' = Op("switch_agent", new_agent_id, bot, r.calls, r.exc, "")
    /\ UNCHANGED <<states, nextSession, convVars, appVars, memVars, configVars>>

BotExtractState(user_message, assistant_response, oExtract) ==
    /\ bot.live
    /\ ExtractsDone(states) < MaxExtracts
    /\ LET r == extract_state(bot, user_message, assistant_response, states, oExtract)
       IN  /\ states' = r.states
           /\ op' = Op("extract_state", "", bot, r.calls, r.exc, r.ret)
    /\ UNCHANGED <<bot, schemas, nextSession, convVars, appVars, memVars, configVars>>

BotResetSession(oGet, failAt, failKind) ==
    /\ bot.live
    /\ nextSession <= MaxSessions
    /\ LET r == reset_session(bot, states, nextSession, oGet, failAt, failKind)
       IN  /\ bot' = r.bot
           /\ states' = r.states
           /\ op' = Op("reset_session", "", bot, r.calls, r.exc, r.ret)
           /\ nextSession' = IF r.bot.session_id # bot.session_id
                              THEN nextSession + 1 ELSE nextSession
    /\ UNCHANGED <<schemas, convVars, appVars, memVars, configVars>>

InitBotSpec == InitConvIdle /\ InitRemote /\ InitBot /\ InitAppIdle

\* The outcomes of state_schemas.list and state_schemas.create an operation
\* on agent_id can meet: create is called only after a list that found nothing.
SchemaOutcomes(agent_id) ==
    {<<oList, oCreate>> \in Outcomes \X Outcomes :
        (oList # "ok" \/ agent_id \notin DEMO_AGENTS
         \/ FirstSchemaNamed(schemas, schema_name(agent_id)) # NoId) => oCreate = "ok"}
\* The archive call that fails (0: none) and how, for the session's states.
ArchiveOutcomes(session_id) ==
    {<<0, "KeyokuError">>} \cup
    ((1..Len(SessionStateIds(states, session_id))) \X Failures)

\* Construction and agent switches alone: the schema protocol.
NextSchema ==
    \/ \E a \in DEMO_AGENTS : \E o \in SchemaOutcomes(a) : BotConstruct(a, o[1], o[2])
    \/ \E a \in DEMO_AGENTS \cup UnknownAgents : \E o \in SchemaOutcomes(a) :
          BotSwitchAgent(a, o[1], o[2])

SpecSchema == InitBotSpec /\ [][NextSchema]_vars

NextBot ==
    \/ \E a \in DEMO_AGENTS : \E o \in SchemaOutcomes(a) : BotConstruct(a, o[1], o[2])
    \/ \E a \in DEMO_AGENTS \cup UnknownAgents : \E o \in SchemaOutcomes(a) :
          BotSwitchAgent(a, o[1], o[2])
    \/ \E oExtract \in Outcomes : BotExtractState("a", "b", oExtract)
    \/ \E oGet \in Outcomes : \E f \in ArchiveOutcomes(bot.session_id) :
          BotResetSession(oGet, f[1], f[2])

SpecBot == InitBotSpec /\ [][NextBot]_vars

\* ------------------------------------------------------------------------
\* A caller using one KeyokuChatbot (the memory tab's chatbot)
\* ------------------------------------------------------------------------
\* self.session_id = session_id or f"session-{uuid...}": the one drawn
MemorySession == 1

\* an operation of the memory chatbot has ended with result r
MemReturned(name, arg, r) ==
    /\ memories' = r.memories
    /\ graph' = graph
    /\ shown' = IF name = "get_relationships" /\ r.ret = "list"
                THEN resolved_relationships(graph) ELSE shown
    /\ op' = Op(name, arg, NoBot, r.calls, r.exc, r.ret)
    /\ UNCHANGED <<bot, nextSession, remoteVars, convVars, appVars, configVars>>

MemChat(message, oSearch, llm, oRemember, oWait) ==
    /\ Len(memories) < MaxMemories
    /\ MemReturned("chat", message,
                   chat(MemorySession, memories, message, oSearch, llm, oRemember, oWait))

MemGetStats(out) == MemReturned("get_stats", "", get_stats(memories, out))
MemGetMemories(out) == MemReturned("get_memories", "", get_memories(memories, out))
MemGetEntities(out) == MemReturned("get_entities", "", get_entities(memories, out))
MemGetRelationships(oEntities, oRelationships) ==
    MemReturned("get_relationships", "", get_relationships(memories, oEntities, oRelationships))
MemGetCleanupSuggestions(out) ==
    MemReturned("get_cleanup_suggestions", "", get_cleanup_suggestions(memories, out))
MemExecuteCleanup(out) == MemReturned("execute_cleanup", "", execute_cleanup(memories, out))
MemClearAllMemories(out) ==
    MemReturned("clear_all_memories", "", clear_all_memories(memories, out))
MemExportData(out) == MemReturned("export_data", "", export_data(memories, out))
MemGetAuditLogs(out) == MemReturned("get_audit_logs", "", get_audit_logs(memories, out))

NextMemory ==
    \/ \E message \in Msgs, oSearch \in Outcomes, llm \in LlmResults,
          oRemember \in Outcomes, oWait \in Outcomes :
          MemChat(message, oSearch, llm, oRemember, oWait)
    \/ \E out \in Outcomes : MemGetStats(out)
    \/ \E out \in Outcomes : MemGetMemories(out)
    \/ \E out \in Outcomes : MemGetEntities(out)
    \/ \E oEntities \in Outcomes, oRelationships \in Outcomes :
          MemGetRelationships(oEntities, oRelationships)
    \/ \E out \in Outcomes : MemGetCleanupSuggestions(out)
    \/ \E out \in Outcomes : MemExecuteCleanup(out)
    \/ \E out \in Outcomes : MemClearAllMemories(out)
    \/ \E out \in Outcomes : MemExportData(out)
    \/ \E out \in Outcomes : MemGetAuditLogs(out)

SpecMemory == InitBotSpec /\ [][NextMemory]_vars

\* ------------------------------------------------------------------------
\* The relationships panel: get_relationships over a knowledge graph
\* ------------------------------------------------------------------------
\* identifiers one character longer than, and as long as, the prefix shown
EntityIds == {[i \in 1..n |-> "a"] : n \in (MaxIdLen - 1)..MaxIdLen}
EntityNames == {<<"A", "n", "n">>, <<"B", "o">>}
Entities == {Entity(id, n) : id \in EntityIds, n \in EntityNames}
Relationships == {Relationship(a, "knows", b) : a \in EntityIds, b \in EntityIds}
Graphs == {Graph(e, r) : e \in UNION {[1..n -> Entities] : n \in 0..MaxGraph},
                         r \in UNION {[1..n -> Relationships] : n \in 0..MaxGraph}}

\* the service holds some knowledge graph; no memory operation has run
InitGraph ==
    /\ InitConvIdle
    /\ InitBot
    /\ InitAppIdle
    /\ schemas = <<>>
    /\ states = <<>>
    /\ memories = <<>>
    /\ graph \in Graphs
    /\ shown = <<>>

NextGraph ==
    \E oEntities \in Outcomes, oRelationships \in Outcomes :
        MemGetRelationships(oEntities, oRelationships)

SpecGraph == InitGraph /\ [][NextGraph]_vars

\* ------------------------------------------------------------------------
\* config.py: validating the configuration read from the environment
\* ------------------------------------------------------------------------
\* Config.load(): the two keys are whatever the environment holds
InitConfig ==
    /\ InitConvIdle
    /\ InitRemote
    /\ InitAppIdle
    /\ nextSession = 1
    /\ bot = NoBot
    /\ op = NoOp
    /\ config \in {Config(k, o) : k \in Keys, o \in Keys}
    /\ validation = NotValidated
    /\ ensuring = NoEnsuring

\* config.validate()
Validate ==
    /\ validation' = [called |-> TRUE, errors |-> validate(config)]
    /\ UNCHANGED <<config, ensuring, nextSession, botVars, remoteVars, convVars, appVars,
                   memVars>>

NextConfig == Validate

SpecConfig == InitConfig /\ [][NextConfig]_vars

\* ------------------------------------------------------------------------
\* A caller reading through one StatefulChatbot
\* ------------------------------------------------------------------------
\* a projection of the chatbot has ended with result r
BotProjected(name, r) ==
    /\ bot.live
    /\ op' = Op(name, "", bot, r.calls, r.exc, r.ret)
    /\ UNCHANGED <<bot, nextSession, remoteVars, convVars, appVars, memVars, configVars>>

BotGetCurrentState(oList) == BotProjected("get_current_state", current_state(bot, states, oList))
BotGetAllSessionStates(oGet) ==
    BotProjected("get_all_session_states", get_all_session_states(bot, states, oGet))
BotGetStateHistory(oList, oHistory) ==
    BotProjected("get_state_history", get_state_history(bot, states, oList, oHistory))
BotGetSchemaInfo(oGet) == BotProjected("get_schema_info", get_schema_info(bot, oGet))
\* bot.chat_with_state_extraction(message, history)
BotChatWithStateExtraction(message, oList, llm, oExtract) ==
    /\ bot.live
    /\ ExtractsDone(states) < MaxExtracts
    /\ LET r == chat_with_state_extraction(bot, states, message, oList, llm, oExtract)
       IN  /\ states' = r.states
           /\ op' = Op("chat_with_state_extraction", message, bot, r.calls, r.exc, r.ret)
    /\ UNCHANGED <<bot, schemas, nextSession, convVars, appVars, memVars, configVars>>

\* bot.chat(message, history)
BotChat(message, oList, llm) ==
    LET c == StatefulChatbot_chat(bot, states, message, oList, llm)
    IN  BotProjected("stateful.chat", Projection(c.calls, "none", c.ret))

NextReads ==
    \/ \E a \in DEMO_AGENTS : \E o \in SchemaOutcomes(a) : BotConstruct(a, o[1], o[2])
    \/ \E oExtract \in Outcomes : BotExtractState("m1", "r1", oExtract)
    \/ \E oList \in Outcomes : BotGetCurrentState(oList)
    \/ \E oGet \in Outcomes : BotGetAllSessionStates(oGet)
    \/ \E oList \in Outcomes, oHistory \in Outcomes : BotGetStateHistory(oList, oHistory)
    \/ \E oGet \in Outcomes : BotGetSchemaInfo(oGet)
    \/ \E oList \in Outcomes, llm \in LlmResults : BotChat("m1", oList, llm)
    \/ \E oList \in Outcomes, llm \in LlmResults, oExtract \in Outcomes :
          BotChatWithStateExtraction("m1", oList, llm, oExtract)

SpecReads == InitBotSpec /\ [][NextReads]_vars

\* ------------------------------------------------------------------------
\* A caller taking one StatefulChatbot through two agents and new sessions
\* ------------------------------------------------------------------------
TwoAgents == {"sales-agent", "support-agent"}

NextClients ==
    \/ \E o \in SchemaOutcomes("sales-agent") : BotConstruct("sales-agent", o[1], o[2])
    \/ \E a \in TwoAgents : \E o \in SchemaOutcomes(a) : BotSwitchAgent(a, o[1], o[2])
    \/ \E oExtract \in Outcomes : BotExtractState("m1", "r1", oExtract)
    \/ \E oGet \in Outcomes : \E f \in ArchiveOutcomes(bot.session_id) :
          BotResetSession(oGet, f[1], f[2])
    \/ \E oList \in Outcomes, oHistory \in Outcomes : BotGetStateHistory(oList, oHistory)

SpecClients == InitBotSpec /\ [][NextClients]_vars

\* ------------------------------------------------------------------------
\* Several StatefulChatbot constructors at once (two threads of the app in
\* get_stateful_chatbot, or two processes): each _ensure_schema is two remote
\* calls, and the calls of the others may come between them.
\* ------------------------------------------------------------------------
\* the chatbot constructor i is building for agent_id
Fresh_chatbot(i, agent_id) ==
    [live |-> TRUE, agent_id |-> agent_id, session_id |-> i, schema_id |-> NoId]

\* state_schemas.list is answered; _ensure_schema ends here when the call
\* fails or the response holds the schema name, and goes on to create otherwise
RaceList(i, agent_id, oList) ==
    /\ ensuring[i].pc = "new"
    /\ LET b == Fresh_chatbot(i, agent_id)
           r == ensure_schema(b, schemas, oList, "ok")
           ends == oList # "ok" \/ FirstSchemaNamed(schemas, schema_name(agent_id)) # NoId
       IN  ensuring' = [ensuring EXCEPT ![i] =
               IF ends
               THEN Ensuring(IF r.exc = "none" THEN "done" ELSE "raised", r.bot, schemas,
                             AnyFailed(r.calls))
               ELSE Ensuring("listed", b, schemas, FALSE)]
    /\ UNCHANGED <<config, validation, nextSession, botVars, remoteVars, convVars, appVars,
                   memVars>>

\* state_schemas.create is answered, after a list response without the name.
\* What the service does with a name it holds by now is its own affair: it
\* stores a second schema of that name, or answers with the one it has.
RaceCreate(i, oCreate, merged) ==
    /\ ensuring[i].pc = "listed"
    /\ LET e == ensuring[i]
           name == schema_name(e.bot.agent_id)
           r == ensure_schema(e.bot, e.listed, "ok", oCreate)
           created == Len(r.schemas) > Len(e.listed)
           held == FirstSchemaNamed(schemas, name)
           answers == merged /\ held # NoId
           id == IF answers THEN held ELSE Len(schemas) + 1
       IN  /\ schemas' = IF created /\ ~answers THEN Append(schemas, name) ELSE schemas
           /\ ensuring' = [ensuring EXCEPT ![i] =
                  Ensuring(IF r.exc = "none" THEN "done" ELSE "raised",
                           IF created THEN [e.bot EXCEPT !.schema_id = id] ELSE r.bot,
                           e.listed, AnyFailed(r.calls))]
    /\ UNCHANGED <<config, validation, states, nextSession, botVars, convVars, appVars, memVars>>

NextRace ==
    \/ \E i \in 1..MaxRaces, a \in DEMO_AGENTS, oList \in Outcomes : RaceList(i, a, oList)
    \/ \E i \in 1..MaxRaces, oCreate \in Outcomes, merged \in BOOLEAN :
          RaceCreate(i, oCreate, merged)

SpecRace == InitBotSpec /\ [][NextRace]_vars

\* ------------------------------------------------------------------------
\* One browser session on the stateful tab, and the other browser sessions
\* of the same process.  The listeners of one browser session's event chain
\* run one after another, each a whole call; a listener that raises leaves
\* its outputs as they were and the chain goes on.  The other browser
\* sessions reach this one only through the module globals and the service.
\* ------------------------------------------------------------------------
TheWorld == World(inst, curSid, nextSession, schemas)

\* a listener's remote calls, within the failures the run may have
Calls(calls) ==
    /\ faults + Failed(calls) <= MaxFaults
    /\ faults' = faults + Failed(calls)

SetWorld(w) ==
    /\ w.next <= MaxSessions + 1
    /\ inst' = w.inst
    /\ curSid' = w.curSid
    /\ nextSession' = w.next
    /\ schemas' = w.schemas

\* the session identifier a listener worked under, when it got a chatbot
Used(o, w, agent_id) ==
    LET got == w.inst.live /\ w.inst.agent_id = agent_id
    IN  [o EXCEPT !.usedSid = IF got THEN w.inst.session_id ELSE @,
                  !.ownSid = IF got /\ @ = NoId THEN w.inst.session_id ELSE @]

\* state.extract succeeds only while the run's extractions are not used up
ExtractOutcomes == IF ExtractsDone(states) < MaxExtracts THEN Outcomes ELSE Failures

\* every listener of the event before has returned
Idle == nFinished = Len(chain)
\* the listener that returned last
LastDone == IF nFinished = 0 THEN "" ELSE chain[nFinished]

Begin(c) ==
    /\ Idle
    /\ chain' = c
    /\ nStarted' = 0
    /\ nFinished' = 0
    /\ obs' = [NoObs EXCEPT !.usedSid = obs.usedSid, !.ownSid = obs.ownSid]
    /\ UNCHANGED <<inst, curSid, nextSession, faults, remoteVars, convVars, botVars,
                   memVars, configVars>>

\* the user sends message (button click or Enter)
ClickSend(message) ==
    /\ Len(ui.stateful_chatbot_ui) + 2 <= MaxLen
    /\ Begin(SendChain)
    /\ ui' = [ui EXCEPT !.stateful_msg_input = message]

ClickNewSession ==
    /\ nextSession <= MaxSessions
    /\ Begin(NewSessionChain)
    /\ UNCHANGED ui

ClickRefresh ==
    /\ Begin(RefreshChain)
    /\ UNCHANGED ui

\* the framework dispatches the next listener of the chain
Dispatch ==
    /\ nStarted < Len(chain)
    /\ then_ready(nStarted, nFinished)
    /\ nStarted' = nStarted + 1
    /\ UNCHANGED <<chain, nFinished, ui, obs, inst, curSid, nextSession, faults, remoteVars,
                   convVars, botVars, memVars, configVars>>

Running(h) == nFinished < nStarted /\ chain[nFinished + 1] = h

Returned ==
    /\ nFinished' = nFinished + 1
    /\ UNCHANGED <<chain, nStarted, convVars, botVars, memVars, configVars>>

FinishStatefulChat ==
    /\ Running("stateful_chat")
    /\ \E oInst \in InstanceOutcomes(TheWorld, ui.agent_selector), oList \in Outcomes,
          llm \in LlmResults :
          LET r == stateful_chat(TheWorld, states, ui.stateful_msg_input,
                                 ui.stateful_chatbot_ui, ui.agent_selector, oInst, oList, llm)
              said == ~r.raised /\ Len(r.out[1]) > Len(ui.stateful_chatbot_ui)
          IN  /\ SetWorld(r.w)
              /\ Calls(r.calls)
              /\ ui' = IF r.raised THEN ui
                       ELSE [ui EXCEPT !.stateful_chatbot_ui = r.out[1],
                                       !.stateful_msg_input = r.out[2],
                                       !.last_user_message = r.out[3]]
              /\ obs' = [Used(obs, r.w, ui.agent_selector) EXCEPT
                            !.message = ui.stateful_msg_input,
                            !.called = {r.calls[k].ep : k \in 1..Len(r.calls)},
                            !.reply = IF said THEN r.out[1][Len(r.out[1])].content ELSE ""]
    /\ UNCHANGED states
    /\ Returned

FinishExtractStateBackground ==
    /\ Running("extract_state_background")
    /\ \E oInst \in InstanceOutcomes(TheWorld, ui.agent_selector), oExtract \in ExtractOutcomes :
          LET r == extract_state_background(TheWorld, states, ui.last_user_message,
                                            ui.stateful_chatbot_ui, ui.agent_selector,
                                            ui.state_display_cache, oInst, oExtract)
          IN  /\ SetWorld(r.w)
              /\ Calls(r.calls)
              /\ states' = r.states
              /\ ui' = IF r.raised THEN ui ELSE [ui EXCEPT !.state_display_cache = r.out[1]]
              /\ obs' = [Used(obs, r.w, ui.agent_selector) EXCEPT
                            !.submitted = [k \in 1..Len(r.out[2]) |-> r.out[2][k].content]]
    /\ Returned

FinishNewStatefulSession ==
    /\ Running("new_stateful_session")
    /\ LET r == new_stateful_session(TheWorld, states)
       IN  /\ SetWorld(r.w)
           /\ Calls(r.calls)
           /\ ui' = [ui EXCEPT !.stateful_chatbot_ui = r.out[1]]
           /\ obs' = [obs EXCEPT !.ownSid = r.w.curSid]
    /\ UNCHANGED states
    /\ Returned

PanelsReturned(r) ==
    /\ SetWorld(r.w)
    /\ Calls(r.calls)
    /\ ui' = [ui EXCEPT !.state_display_cache = r.cache, !.panels = r.panels]
    /\ obs' = [Used(obs, r.w, ui.agent_selector) EXCEPT !.log = r.log]
    /\ UNCHANGED states
    /\ Returned

FinishUpdateStatePanels ==
    /\ Running("update_state_panels")
    /\ \E r \in update_state_panels(TheWorld, states, ui.agent_selector, ui.state_display_cache) :
          PanelsReturned(r)

FinishForceRefreshStatePanels ==
    /\ Running("force_refresh_state_panels")
    /\ \E r \in force_refresh_state_panels(TheWorld, states, ui.agent_selector,
                                           ui.state_display_cache) :
          PanelsReturned(r)

\* another browser session clicks New Session
OtherNewSession ==
    /\ nextSession <= MaxSessions
    /\ SetWorld(new_stateful_session(TheWorld, states).w)
    /\ UNCHANGED <<states, ui, chain, nStarted, nFinished, faults, obs, convVars, botVars,
                   memVars, configVars>>

\* another browser session changes its agent
OtherSwitchAgent ==
    /\ inst.live
    /\ SetWorld(ui_switch_agent(TheWorld, states, "sales-agent", <<>>).w)
    /\ UNCHANGED <<states, ui, chain, nStarted, nFinished, faults, obs, convVars, botVars,
                   memVars, configVars>>

\* The page has been opened with the default agent selected: app.load's
\* chain is waiting.
InitApp ==
    /\ InitConvIdle
    /\ InitRemote
    /\ InitBot
    /\ inst = NoBot
    /\ curSid = NoId
    /\ ui = [stateful_chatbot_ui |-> <<>>, stateful_msg_input |-> "",
             last_user_message |-> "", agent_selector |-> "sales-agent",
             state_display_cache |-> get_empty_state_cache,
             panels |-> get_empty_state_cache]
    /\ chain = LoadChain
    /\ nStarted = 0
    /\ nFinished = 0
    /\ faults = 0
    /\ obs = NoObs

NextApp ==
    \/ \E message \in Msgs \cup {Blank} : ClickSend(message)
    \/ ClickNewSession
    \/ ClickRefresh
    \/ Dispatch
    \/ FinishStatefulChat
    \/ FinishExtractStateBackground
    \/ FinishNewStatefulSession
    \/ FinishUpdateStatePanels
    \/ FinishForceRefreshStatePanels
    \/ OtherNewSession
    \/ OtherSwitchAgent

SpecApp == InitApp /\ [][NextApp]_vars

\* ------------------------------------------------------------------------
\* The stateful tab when the user changes the agent
\* ------------------------------------------------------------------------
\* the user picks another agent in agent_selector
ChangeAgent(agent_id) ==
    /\ agent_id # ui.agent_selector
    /\ Len(ui.stateful_chatbot_ui) < MaxSwitches
    /\ Begin(AgentChain)
    /\ ui' = [ui EXCEPT !.agent_selector = agent_id]

FinishSwitchAgent ==
    /\ Running("switch_agent")
    /\ LET r == ui_switch_agent(TheWorld, states, ui.agent_selector, ui.stateful_chatbot_ui)
       IN  /\ SetWorld(r.w)
           /\ Calls(r.calls)
           /\ ui' = [ui EXCEPT !.stateful_chatbot_ui = r.out[1]]
    /\ UNCHANGED <<states, obs>>
    /\ Returned

NextAgent ==
    \/ \E a \in DEMO_AGENTS : ChangeAgent(a)
    \/ ClickRefresh
    \/ Dispatch
    \/ FinishSwitchAgent
    \/ FinishUpdateStatePanels
    \/ FinishForceRefreshStatePanels

SpecAgent == InitApp /\ [][NextAgent]_vars

\* ------------------------------------------------------------------------
\* app.py: the chat handler of the memory tab
\* ------------------------------------------------------------------------
\* a faulty variant: only the empty message is turned away
ui_chat_unstripped(session_id, mem, message, history, oSearch, llm, oRemember, oWait) ==
    LET r == chat(session_id, mem, message, oSearch, llm, oRemember, oWait)
        turn == history \o <<Dict("user", message), Dict("assistant", r.ret)>>
    IN  IF message = "" THEN [r EXCEPT !.memories = mem, !.calls = <<>>, !.exc = "none",
                                        !.ret = <<history, "">>]
        ELSE IF r.exc # "none" THEN r
        ELSE [r EXCEPT !.ret = <<turn, "">>]

\* chat(message, history) of the memory tab: ret = the two outputs
\* (chatbot_ui, msg_input); the tuples built from history go to the language
\* model only
ui_chat(session_id, mem, message, history, oSearch, llm, oRemember, oWait) ==
    LET r == chat(session_id, mem, message, oSearch, llm, oRemember, oWait)
        turn == history \o <<Dict("user", message), Dict("assistant", r.ret)>>
    IN  IF message \in {"", Blank}
        THEN [r EXCEPT !.memories = mem, !.calls = <<>>, !.exc = "none",
                       !.ret = <<history, "">>]
        ELSE IF r.exc # "none" THEN r
        ELSE [r EXCEPT !.ret = <<turn, "">>]

\* ------------------------------------------------------------------------
\* The two chat tabs of one browser session: sending (any message, the empty
\* and the blank one included) on either tab and changing the agent.  The
\* tabs share no object, so a run stays on the tab it started on.
\* ------------------------------------------------------------------------
\* send_btn.click / msg_input.submit of the memory tab: chat(msg_input, chatbot_ui)
SendChat(message, oSearch, llm, oRemember, oWait) ==
    /\ Len(convHistory) + 2 <= MaxLen
    /\ Len(memories) < MaxMemories
    /\ LET r == ui_chat(MemorySession, memories, message, convHistory, oSearch, llm,
                        oRemember, oWait)
       IN  /\ memories' = r.memories
           /\ convHistory' = IF r.exc = "none" THEN r.ret[1] ELSE convHistory
           /\ op' = Op("ui.chat", message, NoBot, r.calls, r.exc, r.ret)
    /\ UNCHANGED <<convChat, convStateful, convDone, graph, shown, bot, nextSession,
                   remoteVars, appVars, configVars>>

\* the user picks another agent, the history holding any number of turns
SelectAgent(agent_id) ==
    /\ agent_id # ui.agent_selector
    /\ Len(ui.stateful_chatbot_ui) + 1 <= MaxLen
    /\ Cardinality({k \in 1..Len(ui.stateful_chatbot_ui) :
                       ui.stateful_chatbot_ui[k].content \in
                           {SwitchMsg(a) : a \in DEMO_AGENTS}}) < MaxSwitches
    /\ Begin(AgentChain)
    /\ ui' = [ui EXCEPT !.agent_selector = agent_id]

MemoryTabUnused == op = NoOp
StatefulTabUnused == chain = LoadChain /\ nStarted = 0

NextSend ==
    \/ \E message \in Msgs \cup {"", Blank}, oSearch \in Outcomes, llm \in LlmResults,
          oRemember \in Outcomes, oWait \in Outcomes :
          StatefulTabUnused /\ SendChat(message, oSearch, llm, oRemember, oWait)
    \/ \E message \in Msgs \cup {"", Blank} : MemoryTabUnused /\ ClickSend(message)
    \/ \E a \in TwoAgents : MemoryTabUnused /\ SelectAgent(a)
    \/ MemoryTabUnused /\ Dispatch
    \/ FinishStatefulChat
    \/ FinishExtractStateBackground
    \/ FinishSwitchAgent
    \/ FinishUpdateStatePanels

SpecSend == InitApp /\ [][NextSend]_vars

\* ------------------------------------------------------------------------
\* The display fetches one at a time: any of the four may be the next to run
\* on the session's cache, with any outcome of its remote calls; between them
\* a turn's state is extracted and other browser sessions act.
\* ------------------------------------------------------------------------
Streak(p, f) ==
    IF ~AnyFailed(f.calls)
    THEN IF obs.streak.panel = p THEN NoStreak ELSE obs.streak
    ELSE IF obs.streak.panel = p
    THEN [obs.streak EXCEPT !.rets = Append(@, f.ret), !.slots = Append(@, f.cache[p])]
    ELSE [panel |-> p, held |-> ui.state_display_cache[p],
          rets |-> <<f.ret>>, slots |-> <<f.cache[p]>>]

\* a fetch of p that wrote a fresh value is followed until p is fetched again
Kept(p, f) ==
    IF obs.kept.panel \notin {"", p} THEN obs.kept
    ELSE IF f.served = "fresh" THEN [panel |-> p, value |-> f.ret]
    ELSE NoKept

\* the fetch of panel p returns f
Fetch(p, f) ==
    /\ (AnyFailed(f.calls) /\ obs.streak.panel = p) => Len(obs.streak.rets) < MaxStreak
    /\ SetWorld(f.w)
    /\ ui' = [ui EXCEPT !.state_display_cache = f.cache]
    /\ obs' = [obs EXCEPT !.streak = Streak(p, f), !.kept = Kept(p, f)]
    /\ UNCHANGED <<states, chain, nStarted, nFinished, faults, convVars, botVars,
                   memVars, configVars>>

FetchCurrentState ==
    \E oInst \in InstanceOutcomes(TheWorld, ui.agent_selector), oList \in Outcomes :
        Fetch("current_state",
              get_current_state_display(TheWorld, states, ui.agent_selector,
                                        ui.state_display_cache, oInst, oList))

FetchStateHistory ==
    \E oInst \in InstanceOutcomes(TheWorld, ui.agent_selector),
       oList \in Outcomes, oHistory \in Outcomes :
        Fetch("state_history",
              get_state_history_display(TheWorld, states, ui.agent_selector,
                                        ui.state_display_cache, oInst, oList, oHistory))

FetchAllSessionStates ==
    \E oInst \in InstanceOutcomes(TheWorld, ui.agent_selector), oGet \in Outcomes :
        Fetch("all_states",
              get_all_session_states_display(TheWorld, states, ui.agent_selector,
                                             ui.state_display_cache, oInst, oGet))

FetchSchemaInfo ==
    Fetch("schema_info",
          get_schema_info_display(TheWorld, ui.agent_selector, ui.state_display_cache))

\* extract_state_background for the turn (user_message, reply) just shown,
\* the first turn whose extraction creates a state object
ExtractTurn(user_message, reply) ==
    /\ states = <<>>
    /\ \E oInst \in InstanceOutcomes(TheWorld, ui.agent_selector), oExtract \in Outcomes :
          LET r == extract_state_background(
                       TheWorld, states, user_message,
                       <<Dict("user", user_message), Dict("assistant", reply)>>,
                       ui.agent_selector, ui.state_display_cache, oInst, oExtract)
          IN  /\ SetWorld(r.w)
              /\ states' = r.states
              /\ ui' = IF r.raised THEN ui ELSE [ui EXCEPT !.state_display_cache = r.out[1]]
              \* the extraction's own write of the current_state slot ends what
              \* is followed for that panel
              /\ obs' = IF ~r.raised /\ r.out[1] # ui.state_display_cache
                        THEN [obs EXCEPT
                                 !.kept = IF @.panel = "current_state" THEN NoKept ELSE @,
                                 !.streak = IF @.panel = "current_state" THEN NoStreak ELSE @]
                        ELSE obs
    /\ UNCHANGED <<chain, nStarted, nFinished, faults, convVars, botVars, memVars, configVars>>

NextFetch ==
    \/ FetchCurrentState
    \/ FetchStateHistory
    \/ FetchAllSessionStates
    \/ FetchSchemaInfo
    \/ ExtractTurn("m1", "r1")
    \/ OtherSwitchAgent

SpecFetch == InitBotSpec /\ [][NextFetch]_vars

\* ------------------------------------------------------------------------
\* Agent switches: on the stateful tab, and on a StatefulChatbot held directly
\* ------------------------------------------------------------------------
\* a listener of the tab has ended, leaving world w and states st
TabReturned(name, arg, w, st, calls, exc) ==
    /\ SetWorld(w)
    /\ states' = st
    /\ op' = Op(name, arg, inst, calls, exc, "")

\* any handler's get_stateful_chatbot(agent_id) call
TabGetChatbot(agent_id, o) ==
    /\ LET g == get_stateful_chatbot(TheWorld, agent_id, o)
       IN  TabReturned("get_stateful_chatbot", agent_id, g.w, states, g.calls, g.exc)
    /\ UNCHANGED <<bot, ui, chain, nStarted, nFinished, faults, obs, convVars, memVars,
                   configVars>>

\* the chatbot in use extracts state from a turn
TabExtractState(oExtract) ==
    /\ inst.live
    /\ ExtractsDone(states) < MaxExtracts
    /\ LET r == extract_state(inst, "m1", "r1", states, oExtract)
       IN  TabReturned("tab.extract_state", "", TheWorld, r.states, r.calls, r.exc)
    /\ UNCHANGED <<bot, ui, chain, nStarted, nFinished, faults, obs, convVars, memVars,
                   configVars>>

\* agent_selector.change: switch_agent(agent_selector, stateful_chatbot_ui)
TabSwitchAgent(agent_id) ==
    /\ Len(ui.stateful_chatbot_ui) < MaxSwitches
    /\ LET h == ui_switch_agent(TheWorld, states, agent_id, ui.stateful_chatbot_ui)
       IN  /\ TabReturned("tab.switch_agent", agent_id, h.w, h.states, h.calls, "none")
           /\ ui' = [ui EXCEPT !.stateful_chatbot_ui = h.out[1], !.agent_selector = agent_id]
    /\ UNCHANGED <<bot, chain, nStarted, nFinished, faults, obs, convVars, memVars,
                   configVars>>

\* new_session_btn.click: new_stateful_session()
TabNewSession ==
    /\ LET h == new_stateful_session(TheWorld, states)
       IN  /\ TabReturned("new_stateful_session", "", h.w, h.states, h.calls, "none")
           /\ ui' = [ui EXCEPT !.stateful_chatbot_ui = h.out[1]]
    /\ UNCHANGED <<bot, chain, nStarted, nFinished, faults, obs, convVars, memVars,
                   configVars>>

\* A run follows the tab, or a caller who holds a StatefulChatbot directly.
TabInUse == curSid # NoId
NextSwitch ==
    \/ \E a \in TwoAgents : \E o \in InstanceOutcomes(TheWorld, a) :
          ~bot.live /\ TabGetChatbot(a, o)
    \/ \E oExtract \in Outcomes : ~bot.live /\ TabExtractState(oExtract)
    \/ \E a \in TwoAgents : ~bot.live /\ TabSwitchAgent(a)
    \/ ~bot.live /\ TabNewSession
    \/ \E o \in SchemaOutcomes("sales-agent") :
          ~TabInUse /\ BotConstruct("sales-agent", o[1], o[2])
    \/ \E a \in TwoAgents : \E o \in SchemaOutcomes(a) :
          ~TabInUse /\ BotSwitchAgent(a, o[1], o[2])
    \/ \E oExtract \in Outcomes : ~TabInUse /\ BotExtractState("m1", "r1", oExtract)

SpecSwitch == InitBotSpec /\ [][NextSwitch]_vars

\* ------------------------------------------------------------------------
\* Claims about constructors running at the same time
\* ------------------------------------------------------------------------
\* constructor i has ended, for this agent, with no failing call
EnsuredFor(i, agent_id) ==
    /\ ensuring[i].pc = "done"
    /\ ensuring[i].bot.agent_id = agent_id
    /\ ~ensuring[i].failed

\* the schemas of the service that carry the agent's schema name
SchemasNamed(agent_id) == {k \in 1..Len(schemas) : schemas[k] = schema_name(agent_id)}

\* C27: when two StatefulChatbot instances for the same agent have run
\* _ensure_schema, at the same time or one after the other, and no call
\* failed, the service holds at most one schema with the agent's schema name
\* and both instances have the same schema_id.
C27_OneSchemaPerAgent ==
    \A a \in DEMO_AGENTS : \A i, j \in 1..MaxRaces :
        (i # j /\ EnsuredFor(i, a) /\ EnsuredFor(j, a)) =>
            /\ Cardinality(SchemasNamed(a)) <= 1
            /\ ensuring[i].bot.schema_id = ensuring[j].bot.schema_id

\* ------------------------------------------------------------------------
\* Claims about the stateful tab
\* ------------------------------------------------------------------------
\* the step in which listener h of the running chain returns
Returns(h) == Running(h) /\ nFinished' = nFinished + 1

\* the cache the fetches of a panel update start from
GivenCache(h) ==
    IF h = "update_state_panels" THEN ui.state_display_cache ELSE get_empty_state_cache

\* the discipline of one display fetch over the step of a panel update
FetchDiscipline(h, p) ==
    IF obs'.log[p].failed
    THEN /\ ui'.state_display_cache[p] = GivenCache(h)[p]
         /\ ui'.panels[p] = IF GivenCache(h)[p] # None THEN GivenCache(h)[p] ELSE Error
    ELSE /\ obs'.log[p].served = "fresh"
         /\ ui'.state_display_cache[p] = ui'.panels[p]

\* C1: in every panel update, each of the four display fetches whose remote
\* calls all succeed overwrites its cache slot with the fresh value and
\* returns it; a fetch with a failed remote call (service error or raised
\* exception) returns the value its slot held before, or an "Error:" text
\* when the slot was empty, and leaves the slot as it was.
C1_FetchDiscipline ==
    [][\A h \in {"update_state_panels", "force_refresh_state_panels"} :
          Returns(h) => \A p \in Panels : FetchDiscipline(h, p)]_vars

\* C6: after force_refresh_state_panels (Refresh State button, New Session
\* chain) no panel was served from the cache: every panel is a value fetched
\* in this call, which its slot holds too, or an error text over an empty slot.
C6_ForceRefreshServesNothingCached ==
    LastDone = "force_refresh_state_panels" =>
        \A p \in Panels :
            /\ obs.log[p].served \in {"fresh", "error"}
            /\ obs.log[p].served = "fresh" => ui.state_display_cache[p] = ui.panels[p]
            /\ obs.log[p].served = "error" =>
                  ui.panels[p] = Error /\ ui.state_display_cache[p] = None

\* the New Session chain has refreshed the panels of a session that had a
\* turn in its history and a filled cache, with the fetch of the current
\* state failing
C6_Witness ==
    /\ chain = NewSessionChain
    /\ LastDone = "force_refresh_state_panels"
    /\ ui.last_user_message \in Msgs
    /\ obs.log["all_states"].served = "error"
    /\ obs.log["schema_info"].served = "fresh"
    /\ ui.state_display_cache["all_states"] = None

\* C7: every extraction extract_state_background submits carries the message
\* stateful_chat processed in the same chain and the reply stateful_chat
\* generated for it.
C7_SubmitsThisTurn ==
    \A k \in 1..Len(obs.submitted) : obs.submitted[k] = <<obs.message, obs.reply>>

\* a chatbot with a schema, for comparing the two paths
SomeChatbot == [live |-> TRUE, agent_id |-> "sales-agent", session_id |-> 1, schema_id |-> 1]
\* the state.extract calls chat_with_state_extraction makes for a turn with this reply
BlockingExtracts(message, reply) ==
    LET r == chat_with_state_extraction(SomeChatbot, <<>>, message, "ok", reply, "ok")
    IN  {k \in 1..Len(r.calls) : r.calls[k].ep = "state.extract"}

\* C25: the send chain submits an extraction only for a turn for which
\* chat_with_state_extraction would: when the reply generated by stateful_chat
\* is an "Error ..." text, extract_state_background submits nothing.
C25_SameTurnsExtracted ==
    (chain = SendChain /\ nFinished >= 2 /\ obs.reply \in LlmResults /\ obs.submitted # <<>>)
    => BlockingExtracts(obs.message, obs.reply) # {}

\* stateful_chat returns in this step, for a message with text, with a chatbot
\* of the selected agent that has no schema
NoSchemaTurn ==
    /\ Returns("stateful_chat")
    /\ ui.stateful_msg_input \notin {"", Blank}
    /\ inst'.live /\ inst'.agent_id = ui.agent_selector /\ inst'.schema_id = NoId

\* C26: when the chatbot stateful_chat gets has no schema_id, stateful_chat
\* calls neither the language model nor state.extract, appends the user
\* message and the fixed error reply to the history and hands the empty
\* message to phase two; extract_state_background then returns the cache
\* unchanged and submits no extraction.
C26_NoSchemaNoTurn ==
    [][/\ NoSchemaTurn =>
            /\ obs'.called \cap {"llm.invoke", "state.extract"} = {}
            /\ states' = states
            /\ ui'.stateful_chatbot_ui = ui.stateful_chatbot_ui \o
                   <<Dict("user", ui.stateful_msg_input), Dict("assistant", SchemaError)>>
            /\ ui'.last_user_message = ""
       /\ (Returns("extract_state_background") /\ obs.reply = SchemaError) =>
            /\ ui'.state_display_cache = ui.state_display_cache
            /\ obs'.submitted = <<>>
            /\ states' = states]_vars

\* a send chain whose first phase met a chatbot without schema and whose
\* second phase has returned, the cache holding a value from before
C26_Witness ==
    /\ chain = SendChain
    /\ nFinished >= 2
    /\ obs.message \in Msgs
    /\ obs.reply = SchemaError
    /\ ui.last_user_message = ""
    /\ ui.state_display_cache # get_empty_state_cache

\* a message that is empty or white space only: not message.strip()
NoText == {"", Blank}
\* the message of the send event being handled
SentMessage == IF nFinished = 0 THEN ui.stateful_msg_input ELSE obs.message

\* C29 (as stated): a send event with an empty or whitespace-only message
\* changes nothing: no step of its chain changes the history, the display
\* cache, the panels, the module globals or what the service holds.
C29_BlankSendChangesNothing ==
    [][(chain = SendChain /\ chain' = SendChain /\ SentMessage \in NoText) =>
          /\ ui'.stateful_chatbot_ui = ui.stateful_chatbot_ui
          /\ ui'.state_display_cache = ui.state_display_cache
          /\ ui'.panels = ui.panels
          /\ UNCHANGED <<inst, curSid, schemas, states>>]_vars

\* C29 (amended): for an empty or whitespace-only message, chat and
\* stateful_chat return the history unchanged and make no remote or
\* language-model call, and the extract_state_background that follows
\* returns the display cache unchanged without calling state.extract.
C29_BlankSendHandlers ==
    [][/\ (op'.name = "ui.chat" /\ op'.arg \in NoText) =>
            /\ op'.ret = <<convHistory, "">>
            /\ op'.exc = "none"
            /\ op'.calls = <<>>
            /\ UNCHANGED <<convHistory, memories>>
       /\ (Returns("stateful_chat") /\ ui.stateful_msg_input \in NoText) =>
            /\ ui'.stateful_chatbot_ui = ui.stateful_chatbot_ui
            /\ obs'.called = {}
            /\ UNCHANGED <<inst, curSid, schemas, states, faults>>
       /\ (Returns("extract_state_background") /\ obs.message \in NoText) =>
            /\ ui'.state_display_cache = ui.state_display_cache
            /\ obs'.submitted = <<>>
            /\ UNCHANGED <<inst, curSid, schemas, states, faults>>]_vars

\* a blank message was sent after a turn, its two phases have returned, and
\* history and cache hold what the turn left
C29_Witness ==
    /\ chain = SendChain
    /\ nFinished >= 2
    /\ obs.message = Blank
    /\ Len(ui.stateful_chatbot_ui) >= 2
    /\ ui.last_user_message = Blank
    /\ ui.state_display_cache["current_state"] # None

\* history h followed by the records of one turn: the user message, then an
\* assistant record
TurnAppended(h, new, message) ==
    /\ Len(new) = Len(h) + 2
    /\ SubSeq(new, 1, Len(h)) = h
    /\ new[Len(h) + 1] = Dict("user", message)
    /\ new[Len(h) + 2].type = "dict" /\ new[Len(h) + 2].role = "assistant"
\* h is the beginning of new
IsPrefix(h, new) == Len(h) <= Len(new) /\ SubSeq(new, 1, Len(h)) = h
\* stateful_chat was left by the exception of get_stateful_chatbot: the
\* selected agent has no chatbot
NoChatbotGot == ~(inst'.live /\ inst'.agent_id = ui.agent_selector)

C8_PhasesInOrder ==
    chain = SendChain => nStarted <= nFinished + 1

\* extract_state_background has submitted the turn stateful_chat returned,
\* and update_state_panels is running
C8_Witness ==
    /\ chain = SendChain
    /\ nStarted = 3
    /\ nFinished = 2
    /\ obs.message \in Msgs
    /\ obs.submitted = << <<obs.message, obs.reply>> >>

\* C9: the chatbot a listener of this browser session works with has the
\* session identifier this browser session got on its first use, or with its
\* own last New Session.
C9_OwnSessionId ==
    obs.usedSid \in {NoId, obs.ownSid}

\* C11: the slot of a panel whose fetch wrote a fresh value holds exactly the
\* value that fetch returned, through every sequence of fetches of the other
\* three panels, whatever their outcomes.
C11_FetchWritesOwnSlot ==
    obs.kept.panel # "" => ui.state_display_cache[obs.kept.panel] = obs.kept.value

\* the history panel was fetched with success, and after it the fetch of the
\* session's states has failed twice
C11_Witness ==
    /\ obs.kept = [panel |-> "state_history", value |-> HistoryTable(1)]
    /\ obs.streak.panel = "all_states"
    /\ Len(obs.streak.rets) = 2
    /\ ui.state_display_cache["state_history"] = HistoryTable(1)

\* C12: when the fetch of a panel whose slot held a value has failed twice or
\* more in a row, every one of these fetches returned the value the slot held
\* before the first failure and left the slot holding it.
C12_FailuresServeHeldValue ==
    (obs.streak.held # None /\ Len(obs.streak.rets) >= 2) =>
        \A k \in 1..Len(obs.streak.rets) :
            /\ obs.streak.rets[k] = obs.streak.held
            /\ obs.streak.slots[k] = obs.streak.held

\* C13: when the extraction extract_state_background submitted has failed
\* (it raised, or returned an error without a state), the cache the listener
\* returns has the four slots of the cache it was given.
C13_FailedExtractionKeepsCache ==
    [][(Returns("extract_state_background") /\ obs'.submitted # <<>> /\ states' = states)
          => ui'.state_display_cache = ui.state_display_cache]_vars

\* a turn's extraction was submitted and failed: the service holds no state,
\* and the cache is as the page load left it
C13_Witness ==
    /\ LastDone = "extract_state_background"
    /\ obs.submitted # <<>>
    /\ states = <<>>
    /\ faults = 1
    /\ ui.state_display_cache["current_state"] = CurrentStateJson("sales-agent", 0)
    /\ ui.state_display_cache["schema_info"] = SchemaInfoJson("sales-agent")

\* the operation of this step made no call that writes or archives state
NoStateCall(o) ==
    \A k \in 1..Len(o.calls) : o.calls[k].ep \notin {"state.extract", "state.archive"}

\* C19: StatefulChatbot.switch_agent leaves session_id as it was; the tab's
\* switch_agent leaves _current_session_id as it was, and the
\* get_stateful_chatbot call that follows it yields a chatbot with the session
\* identifier the chatbot had before the switch. None of these steps changes
\* the state objects or calls state.extract or state.archive.
C19_SwitchKeepsSession ==
    [][/\ op'.name = "switch_agent"
          => /\ bot'.session_id = bot.session_id
             /\ states' = states
             /\ NoStateCall(op')
       /\ op'.name = "tab.switch_agent"
          => /\ curSid' = curSid
             /\ states' = states
             /\ op'.calls = <<>>
       /\ (op.name = "tab.switch_agent" /\ op'.name = "get_stateful_chatbot")
          => /\ curSid # NoId => curSid' = curSid
             /\ inst'.live => inst'.session_id = curSid'
             /\ (inst'.live /\ op.pre.live) => inst'.session_id = op.pre.session_id
             /\ states' = states
             /\ NoStateCall(op')
      ]_vars

\* after a switch on the tab, the support agent's chatbot works in session 1,
\* where the sales agent's state object still is the only one
C19_Witness ==
    /\ op.name = "get_stateful_chatbot"
    /\ op.arg = "support-agent"
    /\ op.pre = NoBot
    /\ ui.stateful_chatbot_ui = <<Dict("assistant", SwitchMsg("support-agent"))>>
    /\ inst.live
    /\ inst.agent_id = "support-agent"
    /\ inst.session_id = 1
    /\ curSid = 1
    /\ Len(states) = 1
    /\ states[1].agent_id = "sales-agent"
    /\ states[1].session_id = 1

\* ------------------------------------------------------------------------
\* Claims about Config
\* ------------------------------------------------------------------------
KeyokuKeyError == "KEYOKU_API_KEY is required"
OpenaiKeyError == "OPENAI_API_KEY is required"
ErrorsIn(errors) == {errors[i] : i \in 1..Len(errors)}

\* C20: validate returns the empty list exactly when both keys are non-empty;
\* with exactly one key empty it returns exactly the error naming that key,
\* with both empty it returns both errors and nothing else.
C20_ValidateNamesMissingKeys ==
    validation.called =>
        LET k == config.keyoku_api_key = <<>>
            o == config.openai_api_key = <<>>
            errors == validation.errors
        IN  /\ errors = <<>> <=> (~k /\ ~o)
            /\ (k /\ ~o) => errors = <<KeyokuKeyError>>
            /\ (~k /\ o) => errors = <<OpenaiKeyError>>
            /\ (k /\ o) => (Len(errors) = 2 /\ ErrorsIn(errors) = {KeyokuKeyError, OpenaiKeyError})

\* the OpenAI key is missing, the Keyoku key is a blank: one error
C20_Witness ==
    /\ validation.called
    /\ config.keyoku_api_key = <<" ">>
    /\ config.openai_api_key = <<>>
    /\ validation.errors = <<OpenaiKeyError>>

\* the agent a displayed value was computed for ("" for a value that
\* carries no agent's data)
AgentOf(value) == IF value.k \in {"current_state", "schema_info"} THEN value.agent ELSE ""

\* C23: when the update_state_panels of an agent change has returned, no
\* panel shows data computed for another agent than the one now selected:
\* each shows data of the selected agent, or a placeholder or error text.
C23_NoValueOfPreviousAgent ==
    (chain = AgentChain /\ nFinished = 2)
    => \A p \in Panels : AgentOf(ui.panels[p]) \in {"", ui.agent_selector}

\* C24: after any sequence of get_stateful_chatbot, switch_agent (tab) and
\* new_stateful_session calls, a chatbot instance that exists has the current
\* session identifier, and a get_stateful_chatbot(a) that returned has left
\* (and returned) an instance whose agent is a.
C24_InstanceFollowsGlobals ==
    /\ inst.live => inst.session_id = curSid
    /\ (op.name = "get_stateful_chatbot" /\ op.exc = "none")
          => (inst.live /\ inst.agent_id = op.arg)

\* in the second session, after a switch, the support agent's chatbot
C24_Witness ==
    /\ op.name = "get_stateful_chatbot"
    /\ op.arg = "support-agent"
    /\ op.exc = "none"
    /\ op.pre = NoBot
    /\ inst.agent_id = "support-agent"
    /\ inst.session_id = 2
    /\ curSid = 2
    /\ ui.stateful_chatbot_ui # <<>>

\* ------------------------------------------------------------------------
\* Claims about KeyokuChatbot
\* ------------------------------------------------------------------------
\* the text get_relationships must show for an endpoint of a relationship
IsLabelOf(label, id) ==
    IF \E i \in 1..Min(EntityLimit, Len(graph.entities)) : graph.entities[i].id = id
    THEN \E i \in 1..Min(EntityLimit, Len(graph.entities)) :
            graph.entities[i].id = id /\ label = graph.entities[i].canonical_name
    ELSE /\ Len(label) = Min(IdPrefixLen, Len(id)) + 3
         /\ \A c \in 1..Min(IdPrefixLen, Len(id)) : label[c] = id[c]
         /\ \A c \in (Len(label) - 2)..Len(label) : label[c] = "."

\* C21: a get_relationships whose two calls succeeded returns one record per
\* relationship the service listed, in the listed order; its source and its
\* target are the name of a fetched entity with that identifier if there is
\* one, otherwise the first 8 characters of the identifier followed by "...".
C21_RelationshipsResolved ==
    (op.name = "get_relationships" /\ op.ret = "list")
    => /\ Len(op.calls) = 2
       /\ op.calls[1].ep = "entities.list"
       /\ op.calls[2].ep = "relationships.list"
       /\ Len(shown) = Len(graph.relationships)
       /\ \A k \in 1..Len(shown) :
             /\ shown[k].type = graph.relationships[k].relationship_type
             /\ IsLabelOf(shown[k].source, graph.relationships[k].source_entity_id)
             /\ IsLabelOf(shown[k].target, graph.relationships[k].target_entity_id)

\* the second relationship's source is a known entity, its target is none:
\* a name and a 9-character identifier cut to 8 characters
C21_Witness ==
    /\ op.name = "get_relationships"
    /\ op.ret = "list"
    /\ Len(graph.entities) = 1
    /\ Len(graph.entities[1].id) = MaxIdLen - 1
    /\ Len(shown) = 2
    /\ shown[2].source = <<"B", "o">>
    /\ Len(graph.relationships[2].target_entity_id) = IdPrefixLen + 1
    /\ Len(shown[2].target) = IdPrefixLen + 3

\* the last operation's call of the language model succeeded
ReplyGenerated == \E k \in 1..Len(op.calls) : op.calls[k].ep = "llm.invoke" /\ op.calls[k].out = "ok"
\* the outcome of the last operation's call to endpoint ep ("" if not called)
OutcomeOf(ep) ==
    IF \E k \in 1..Len(op.calls) : op.calls[k].ep = ep
    THEN op.calls[CHOOSE k \in 1..Len(op.calls) : op.calls[k].ep = ep].out
    ELSE ""

\* C14: once the language model has produced a reply, chat returns that reply
\* and does not raise, whether remember and wait succeed, remember raises a
\* service error, or remember or wait raises a timeout; the conversation it
\* tried to store holds the message and that same reply.
C14_ReplySurvivesStorage ==
    (op.name = "chat" /\ ReplyGenerated)
    => /\ op.exc = "none"
       /\ op.ret \in Replies
       /\ \E k \in 1..Len(op.calls) :
             /\ op.calls[k].ep = "remember"
             /\ op.calls[k].content = <<op.arg, op.ret>>

\* the language model was called and raised
GenerationFailed == OutcomeOf("llm.invoke") \in Failures
\* the remember calls of the last operation
RememberCalls == {k \in 1..Len(op.calls) : op.calls[k].ep = "remember"}

\* C28: when the language-model call of chat fails, chat returns the
\* "Error generating response" text, makes no remember call and leaves the
\* stored conversations as they were; a remember call is made only after a
\* reply was generated, once, and its content is the current message and
\* that reply.
C28_FailedTurnNotStored ==
    [][op'.name = "chat" =>
          /\ (LET o == op' IN \E k \in 1..Len(o.calls) :
                  o.calls[k].ep = "llm.invoke" /\ o.calls[k].out \in Failures)
             => /\ op'.ret = GenerationError
                /\ op'.exc = "none"
                /\ \A k \in 1..Len(op'.calls) : op'.calls[k].ep # "remember"
                /\ memories' = memories
          /\ \A k \in 1..Len(op'.calls) : op'.calls[k].ep = "remember" =>
                /\ k > 1 /\ op'.calls[k - 1] = LlmCall(op'.ret)
                /\ op'.ret \in Replies
                /\ op'.calls[k].content = <<op'.arg, op'.ret>>
                /\ \A j \in 1..Len(op'.calls) : op'.calls[j].ep = "remember" => j = k]_vars

\* a turn is stored, and the next turn's generation fails
C28_Witness ==
    /\ op.name = "chat"
    /\ GenerationFailed
    /\ RememberCalls = {}
    /\ op.ret = GenerationError
    /\ Len(memories) = 1

C14_Witness ==
    /\ op.name = "chat"
    /\ ReplyGenerated
    /\ OutcomeOf("remember") = "ok"
    /\ OutcomeOf("job.wait") = "TimeoutError"
    /\ op.ret = "r1"
    /\ Len(memories) = 2

\* the values that say "this failed": {"error": ...}, [{"error": ...}], and
\* {"success": False, ...} of clear_all_memories
ErrorShaped == {"error", "error_list", "failure"}
ServiceErrorMet == \E k \in 1..Len(op.calls) : op.calls[k].out = "KeyokuError"

\* C15: an operation of KeyokuChatbot or StatefulChatbot that met a service
\* error (KeyokuError) in one of its remote calls returns normally, and what
\* it returns is error-shaped: never a value an empty success also returns.
\* (chat is left out: it returns its reply by design, see C14.)
C15_ServiceErrorsAreErrorShaped ==
    (op.name \notin {"", "chat", "stateful.chat", "chat_with_state_extraction"} /\ ServiceErrorMet)
    => (op.exc = "none" /\ op.ret \in ErrorShaped)

\* the operations of KeyokuChatbot
KeyokuOps == {"chat", "get_stats", "get_memories", "get_entities", "get_relationships",
              "get_cleanup_suggestions", "execute_cleanup", "clear_all_memories",
              "export_data", "get_audit_logs"}

\* C16: an operation of KeyokuChatbot one of whose calls into the memory
\* service failed, with a service error or with a timeout, does not raise
\* and returns a value.
C16_BothFailureKindsHandled ==
    (op.name \in KeyokuOps /\ \E k \in 1..Len(op.calls) :
                                 op.calls[k].ep # "llm.invoke" /\ op.calls[k].out \in Failures)
    => (op.exc = "none" /\ op.ret # "")

\* ------------------------------------------------------------------------
\* Claims about StatefulChatbot
\* ------------------------------------------------------------------------
\* the remote calls of the last operation that went to endpoint ep
CallsTo(ep) == {k \in 1..Len(op.calls) : op.calls[k].ep = ep}

\* C2: after switch_agent("support-agent") on a chatbot whose agent was
\* "sales-agent", whether the schema was found, created or the service
\* answered with an error, schema_id is not the identifier of an
\* "OrderProcessing" schema.
C2_NeverSalesSchema ==
    (/\ op.name = "switch_agent"
     /\ op.arg = "support-agent"
     /\ op.pre.agent_id = "sales-agent"
     /\ op.exc = "none")
    => (bot.schema_id = NoId \/ schemas[bot.schema_id] # "OrderProcessing")

\* C3: reset_session attempts to archive every state object returned for the
\* session, a failed archive call does not stop the remaining ones, and the
\* session identifier is replaced afterwards, also when an archive call failed.
C3_ArchivesAllThenNewSession ==
    (/\ op.name = "reset_session"
     /\ op.calls # <<>>
     /\ op.calls[1].out = "ok"
     /\ \A k \in CallsTo("state.archive") : op.calls[k].out \in {"ok", "KeyokuError"})
    => /\ \A id \in {i \in 1..Len(states) : states[i].session_id = op.pre.session_id} :
             \E k \in CallsTo("state.archive") : op.calls[k].id = id
       /\ bot.session_id # op.pre.session_id

\* C17: _ensure_schema for a known agent (run by the constructor and by
\* switch_agent) calls state_schemas.list once, first. When the list succeeds
\* and holds a schema with the agent's schema name, no create call follows and
\* schema_id becomes that schema's identifier; when it holds none, exactly one
\* create call follows, with mode "warn" and the agent's name, definition and
\* rules, and if it succeeds schema_id becomes the created schema's identifier.
C17_ListOnceThenFindOrCreate ==
    [][(op' # op /\ op'.name \in {"__init__", "switch_agent"} /\ op'.arg \in DEMO_AGENTS)
       => LET calls == op'.calls
              name == schema_name(op'.arg)
              found == FirstSchemaNamed(schemas, name)
          IN  /\ Len(calls) >= 1
              /\ calls[1].ep = "state_schemas.list"
              /\ \A k \in 2..Len(calls) : calls[k].ep # "state_schemas.list"
              /\ (calls[1].out = "ok" /\ found # NoId)
                    => /\ Len(calls) = 1
                       /\ bot'.schema_id = found
                       /\ schemas' = schemas
              /\ (calls[1].out = "ok" /\ found = NoId)
                    => /\ Len(calls) = 2
                       /\ calls[2].ep = "state_schemas.create"
                       /\ calls[2].mode = "warn"
                       /\ calls[2].name = name
                       /\ calls[2].content = <<op'.arg>>
                       /\ calls[2].out = "ok"
                             => /\ schemas' = Append(schemas, name)
                                /\ bot'.schema_id = Len(schemas')
              /\ calls[1].out # "ok" => Len(calls) = 1 /\ schemas' = schemas
      ]_vars

\* a switch created the second schema, a later one found the first again
C17_Witness ==
    /\ op.name = "switch_agent"
    /\ op.arg = "sales-agent"
    /\ op.pre.agent_id = "support-agent"
    /\ Len(op.calls) = 1
    /\ op.calls[1].out = "ok"
    /\ schemas = <<"OrderProcessing", "SupportTicket">>
    /\ bot.schema_id = 1

\* the arguments of a call made: the call without its outcome
Arguments(call) == [call EXCEPT !.out = ""]

C22_ChatExtractsNothing ==
    [][/\ op'.name = "stateful.chat"
          => /\ \A k \in 1..Len(op'.calls) : op'.calls[k].ep # "state.extract"
             /\ states' = states
       /\ states' # states => op'.name \in {"extract_state", "chat_with_state_extraction"}
      ]_vars

\* a reply was generated in a session that has a state object, version 1
C22_Witness ==
    /\ op.name = "stateful.chat"
    /\ op.ret = "r1"
    /\ Len(op.calls) = 2
    /\ op.calls[1].ep = "state.list"
    /\ op.calls[2].ep = "llm.invoke"
    /\ Len(states) = 1
    /\ states[1].version = 1

\* C10: switch_agent with an identifier that is no key of DEMO_AGENTS raises
\* ValueError before any remote call and leaves agent_id, schema_id and
\* session_id as they were.
C10_UnknownAgentRaisesFirst ==
    (op.name = "switch_agent" /\ op.arg \notin DEMO_AGENTS)
    => /\ op.exc = "ValueError"
       /\ op.calls = <<>>
       /\ bot = op.pre

C10_Witness ==
    /\ op.name = "switch_agent"
    /\ op.arg \notin DEMO_AGENTS
    /\ op.exc = "ValueError"
    /\ bot.schema_id # NoId
    /\ bot.agent_id = "support-agent"

====
